---- MODULE Spec2Model ----
(***************************************************************************)
(* A model of the particle containers of particles_base.h                  *)
(* (PointMassArray and the Converter strategy table) and of the generic    *)
(* evaluation dispatcher of py_wrapper.cpp (callAnyFunctionOnArray), with  *)
(* set_units, the construction and evaluation of a SplineApprox object,    *)
(* and the Potential and ActionFinder objects with the models they own or  *)
(* refer to.                                                               *)
(*                                                                         *)
(* Doubles are modelled by integers.  A geometric entity is modelled by    *)
(* the coordinate system it is expressed in together with the physical     *)
(* point (and velocity) it denotes, named by Cartesian components.         *)
(***************************************************************************)
EXTENDS Integers, Sequences, FiniteSets, TLC

VARIABLES
    pma,    \* the PointMassArray objects: NoObject, or [T, data]
    heap,   \* the storage of the std::vector members `data`
    hist,   \* history: the pairs appended to each object, in call order,
            \* for as long as appends are all that happened to it
    ret,    \* the last call on a container or on a Potential object, and
            \* what it returned or threw
    conv,   \* the external units in use (static conv of py_wrapper.cpp)
    method,     \* the evaluation method called on the Python object
    args,       \* the argument tuple of the call
    selfOk,     \* whether the object the method is called on holds its model
    pc,         \* where the call is: "idle", "loop", "par" or "returned"
    arr,        \* the array the argument was converted to, and the
                \* references to it the call holds
    numpt,      \* the number of points of a batch
    resultObj,  \* the output object of a batch
    idx,        \* the loop variable i
    result,     \* the scratch buffer result[] of the call
    fncCalls,   \* the inputs the computation function was invoked on, in order
    retval,     \* what the call returned
    pyerr,      \* the Python error indicator
    par,        \* the rows of a batch whose steps are taken in any order
    potentials, \* the Potential objects: whether allocated, and the field pot
    models,     \* the potential::BasePotential models created so far
    finders,    \* the ActionFinder objects: whether allocated, the model the
                \* finder was built from, and the Potential object referred to
    spl         \* the field spl of a SplineApprox object: the spline it holds

pmaVars == <<pma, heap, hist, ret>>

dispVars == <<method, args, selfOk, pc, arr, numpt, resultObj, idx, result,
              fncCalls, retval, pyerr>>

objVars == <<potentials, models, finders, spl>>

vars == <<pmaVars, conv, dispVars, par, objVars>>

\* what the container operations leave alone
outsidePMA == <<conv, dispVars, par, objVars>>

\* what an evaluation call leaves alone
outsideDisp == <<pmaVars, conv, par, objVars>>

-----------------------------------------------------------------------------
(* Bounds of the model *)

\* the largest number of elements a collection is grown to
MaxLen == 2

\* the number of potential models that are created
MaxModels == 3

-----------------------------------------------------------------------------
(* Particle types: coord::PosT<coordT> and coord::PosVelT<coordT> *)

Kinds == {"Pos", "PosVel"}

CoordSystems == {"Car", "Cyl", "Sph"}

ParticleTypes == [kind : Kinds, cs : CoordSystems]

PosCar == [kind |-> "Pos", cs |-> "Car"]

\* sample physical points and velocities
Positions == {<<1, 0, 0>>, <<0, 2, 1>>}

Velocities == {<<0, 1, 0>>}

\* sample masses, one of them negative
Weights == {-1, 2}

\* the values of a particle type
Entities(T) ==
    IF T.kind = "PosVel"
    THEN [cs : {T.cs}, pos : Positions, vel : Velocities]
    ELSE [cs : {T.cs}, pos : Positions]

\* ElemType = std::pair<ParticleT, double>
ElemType(first, second) == [first |-> first, second |-> second]

Elems(T) == [first : Entities(T), second : Weights]

\* two sample elements of a particle type, of different points and masses
SampleElems(T) ==
    {ElemType(IF T.kind = "PosVel"
              THEN [cs |-> T.cs, pos |-> <<1, 0, 0>>, vel |-> <<0, 1, 0>>]
              ELSE [cs |-> T.cs, pos |-> <<1, 0, 0>>], 2),
     ElemType(IF T.kind = "PosVel"
              THEN [cs |-> T.cs, pos |-> <<0, 2, 1>>, vel |-> <<0, 1, 0>>]
              ELSE [cs |-> T.cs, pos |-> <<0, 2, 1>>], 3)}

\* coord::toPosVel<SrcCoordT, DestCoordT>: the same point and velocity,
\* expressed in the destination coordinate system
toPosVel(DestCs, src) == [cs |-> DestCs, pos |-> src.pos, vel |-> src.vel]

\* coord::toPos<SrcCoordT, DestCoordT>: the same point, expressed in the
\* destination coordinate system; a velocity of the argument is sliced off
toPos(DestCs, src) == [cs |-> DestCs, pos |-> src.pos]

\* a Converter whose generic template defined operator() for every pair
ConverterDefined_generic(SrcT, DestT) == TRUE

\* the partial specializations of Converter: the pairs of particle types
\* for which operator() has a definition
ConverterDefined(SrcT, DestT) ==
    \/ SrcT.kind = "PosVel" /\ DestT.kind = "PosVel"
    \/ SrcT.kind = "PosVel" /\ DestT.kind = "Pos"
    \/ SrcT.kind = "Pos" /\ DestT.kind = "Pos"

\* Converter<SrcT, DestT>::operator()
Converter(SrcT, DestT, src) ==
    IF DestT.kind = "PosVel"
    THEN toPosVel(DestT.cs, src)
    ELSE toPos(DestT.cs, src)

-----------------------------------------------------------------------------
(* External units *)

\* units::ExternalUnits(): the default, dimensionless unit system
DefaultUnits == [lengthUnit |-> 1, massUnit |-> 1, velocityUnit |-> 1, timeUnit |-> 1]

\* sample unit systems set_units can have installed
UnitSystems ==
    {DefaultUnits,
     [lengthUnit |-> 2, massUnit |-> 3, velocityUnit |-> 2, timeUnit |-> 1]}

-----------------------------------------------------------------------------
(* Python objects *)

\* a Python float
PyFloat(v) == [type |-> "float", val |-> v]

\* a Python string
PyStr == [type |-> "str"]

\* a Python list of floats
PyList(vals) == [type |-> "list", items |-> vals]

\* a Python tuple
PyTuple(items) == [type |-> "tuple", items |-> items]

\* the NULL a failed call returns
NULL == [type |-> "NULL"]

\* a C-contiguous numpy array of doubles: its dimensions and its cells
NdArray(dims, data) ==
    [type |-> "ndarray", ndim |-> Len(dims), dims |-> dims, data |-> data]

PyArray_NDIM(a) == a.ndim

PyArray_DIM(a, k) == a.dims[k + 1]

\* the double PyArray_GETPTR1(a, i) points to
PyArray_GETPTR1(a, i) == a.data[i + 1]

\* the double PyArray_GETPTR2(a, i, j) points to
PyArray_GETPTR2(a, i, j) == a.data[i * a.dims[2] + j + 1]

SeqsUpTo(S, n) == UNION {[1..k -> S] : k \in 0..n}

RECURSIVE Flatten(_)
Flatten(rows) == IF rows = <<>> THEN <<>> ELSE Head(rows) \o Flatten(Tail(rows))

\* the 1-D array of the given values
Array1(vals) == NdArray(<<Len(vals)>>, vals)

\* the 2-D array of the given rows, each of the given width
Array2(rows, width) == NdArray(<<Len(rows), width>>, Flatten(rows))

-----------------------------------------------------------------------------
(* PointMassArray *)

Objs == {"src", "dst"}

NoObject == [T |-> "none"]

BufIds == {1, 2}

Live(o) == pma[o] # NoObject

LiveObjs == {o \in Objs : Live(o)}

\* the contents of the vector `data` of object o
Data(o) == heap[pma[o].data]

\* a constructor that shares the storage of the source collection
NewData_shared == IF Live("src") THEN pma["src"].data ELSE 1

\* the vector member of a newly constructed object: storage of its own
NewData == CHOOSE b \in BufIds : \A o \in Objs : Live(o) => pma[o].data # b

\* PointMassArray::size
size(data) == Len(data)

\* std::vector::push_back
push_back(data, elem) == Append(data, elem)

\* PointMassArray::add
add(data, first, second) == push_back(data, ElemType(first, second))

\* an at() that does not check its index
at_unchecked(data, index) ==
    IF index < size(data)
    THEN [outcome |-> "value", value |-> data[index + 1]]
    ELSE [outcome |-> "crash"]

\* PointMassArray::at: std::vector::at, which throws std::out_of_range
at(data, index) ==
    IF index < size(data)
    THEN [outcome |-> "value", value |-> data[index + 1]]
    ELSE [outcome |-> "OutOfRange"]

\* PointMassArray::operator[]: unchecked; past the end the behaviour is
\* undefined and the call yields some value of the element type or crashes
Subscript(data, index, T) ==
    IF index < size(data)
    THEN {[outcome |-> "value", value |-> data[index + 1]]}
    ELSE {[outcome |-> "crash"]} \cup
         {[outcome |-> "value", value |-> e] : e \in Elems(T)}

\* PointMassArray::point: data[index].first
point(data, index, T) ==
    {IF r.outcome = "value" THEN [r EXCEPT !.value = r.value.first] ELSE r :
        r \in Subscript(data, index, T)}

\* PointMassArray::mass: data[index].second
mass(data, index, T) ==
    {IF r.outcome = "value" THEN [r EXCEPT !.value = r.value.second] ELSE r :
        r \in Subscript(data, index, T)}

\* the loop of PointMassArray::totalMass
RECURSIVE totalMassLoop(_, _, _)
totalMassLoop(data, i, sum) ==
    IF i < size(data)
    THEN totalMassLoop(data, i + 1, sum + data[i + 1].second)
    ELSE sum

\* a totalMass whose loop starts at the second element
totalMass_skipFirst(data) == totalMassLoop(data, 1, 0)

\* PointMassArray::totalMass
totalMass(data) == totalMassLoop(data, 0, 0)

\* the loop of the conversion constructor
RECURSIVE ConvertLoop(_, _, _, _, _)
ConvertLoop(src, SrcT, DestT, i, data) ==
    IF i < size(src)
    THEN ConvertLoop(src, SrcT, DestT, i + 1,
            push_back(data, ElemType(Converter(SrcT, DestT, src[i + 1].first),
                                     src[i + 1].second)))
    ELSE data

\* a conversion constructor whose loop starts at the second element
ConvertFrom_skipFirst(src, SrcT, DestT) == ConvertLoop(src, SrcT, DestT, 1, <<>>)

\* PointMassArray(const PointMassArray<OtherParticleT>& src)
ConvertFrom(src, SrcT, DestT) == ConvertLoop(src, SrcT, DestT, 0, <<>>)

-----------------------------------------------------------------------------
(* The container operations as actions *)

NoCall == [op |-> "none"]

\* no evaluation call is in progress
\* no loop is run with its rows in any order
NoPar == [status |-> <<>>, overlapped |-> FALSE]

ParIdle == par = NoPar

\* the Python objects of type Potential
PotObjs == {"p", "q", "c"}

\* the null pointer, as a model
NULLPTR == 0

ModelIds == 1..MaxModels

\* the field spl of a SplineApprox object that holds no spline
NoSpline == [knots |-> <<>>]

\* the Python objects of type ActionFinder
FinderObjs == {"af"}

\* no Python object: the NULL of the field pot of an ActionFinderObject
NoPyObject == "NULL"

\* no Potential or ActionFinder object is allocated, no model is created,
\* and the SplineApprox object holds no spline
ObjsIdle ==
    /\ potentials = [o \in PotObjs |-> [exists |-> FALSE, pot |-> NULLPTR]]
    /\ models = [m \in ModelIds |-> [state |-> "unused", components |-> <<>>, deletes |-> 0]]
    /\ finders = [f \in FinderObjs |->
                     [exists |-> FALSE, finder |-> NULLPTR, pot |-> NoPyObject]]
    /\ spl = NoSpline

DispIdle ==
    /\ method = "none"
    /\ args = <<>>
    /\ selfOk = TRUE
    /\ pc = "idle"
    /\ arr = NULL
    /\ numpt = 0
    /\ resultObj = NULL
    /\ idx = 0
    /\ result = <<>>
    /\ fncCalls = <<>>
    /\ retval = NULL
    /\ pyerr = "none"

NoHist == [appended |-> <<>>, onlyAppends |-> FALSE]

InitPMA ==
    /\ pma = [o \in Objs |-> NoObject]
    /\ heap = [b \in BufIds |-> <<>>]
    /\ hist = [o \in Objs |-> NoHist]
    /\ ret = NoCall
    /\ conv \in UnitSystems
    /\ DispIdle
    /\ ParIdle
    /\ ObjsIdle

\* PointMassArray() {}: the source collection is constructed empty
DefaultConstruct(T) ==
    /\ ~Live("src")
    /\ pma' = [pma EXCEPT !["src"] = [T |-> T, data |-> NewData]]
    /\ heap' = [heap EXCEPT ![NewData] = <<>>]
    /\ hist' = [hist EXCEPT !["src"] = [appended |-> <<>>, onlyAppends |-> TRUE]]
    /\ ret' = [op |-> "PointMassArray", obj |-> "src"]
    /\ UNCHANGED outsidePMA

\* sample mass arrays: 1-D arrays of masses
MassArrays == {Array1(v) : v \in SeqsUpTo(Weights, MaxLen)}

\* sample coordinate arrays: N x 3 arrays of points, and a 1 x 2 array
CoordArrays ==
    {Array2(r, 3) : r \in SeqsUpTo(Positions, MaxLen)} \cup {Array2(<<<<1, 0>>>>, 2)}

\* the loop of Potential_initFromParticles that fills pointArray
RECURSIVE FillPointArray(_, _, _, _, _)
FillPointArray(pointCoordArr, pointMassArr, n, i, data) ==
    IF i < n
    THEN LET x == PyArray_GETPTR2(pointCoordArr, i, 0) * conv.lengthUnit
             y == PyArray_GETPTR2(pointCoordArr, i, 1) * conv.lengthUnit
             z == PyArray_GETPTR2(pointCoordArr, i, 2) * conv.lengthUnit
             m == PyArray_GETPTR1(pointMassArr, i) * conv.massUnit
         IN  FillPointArray(pointCoordArr, pointMassArr, n, i + 1,
                add(data, [cs |-> "Car", pos |-> <<x, y, z>>], m))
    ELSE data

\* Potential_initFromParticles, up to the call of createPotentialFromPoints:
\* the collection handed to the potential factory
Potential_initFromParticles(pointCoordArr, pointMassArr) ==
    /\ ~Live("src")
    /\ LET n == IF PyArray_NDIM(pointMassArr) = 1 THEN PyArray_DIM(pointMassArr, 0) ELSE 0
       IN  IF \/ n = 0
              \/ PyArray_NDIM(pointCoordArr) # 2
              \/ PyArray_DIM(pointCoordArr, 0) # n
              \/ PyArray_DIM(pointCoordArr, 1) # 3
           THEN /\ ret' = [op |-> "initFromParticles", obj |-> "src",
                           outcome |-> "ValueError"]
                /\ UNCHANGED <<pma, heap, hist>>
           ELSE LET data == FillPointArray(pointCoordArr, pointMassArr, n, 0, <<>>)
                IN  /\ pma' = [pma EXCEPT !["src"] = [T |-> PosCar, data |-> NewData]]
                    /\ heap' = [heap EXCEPT ![NewData] = data]
                    /\ hist' = [hist EXCEPT !["src"] =
                                    [appended |-> data, onlyAppends |-> TRUE]]
                    /\ ret' = [op |-> "initFromParticles", obj |-> "src",
                               outcome |-> "ok"]
    /\ UNCHANGED outsidePMA

\* a call of add(first, second) on object o
Add(o, first, second) ==
    /\ Live(o)
    /\ size(Data(o)) < MaxLen
    /\ heap' = [heap EXCEPT ![pma[o].data] = add(@, first, second)]
    /\ hist' = [hist EXCEPT ![o].appended =
                    IF hist[o].onlyAppends THEN Append(@, ElemType(first, second)) ELSE @]
    /\ ret' = [op |-> "add", obj |-> o, outcome |-> "ok"]
    /\ UNCHANGED <<pma, outsidePMA>>

\* a call of size() on object o
Size(o) ==
    /\ Live(o)
    /\ ret' = [op |-> "size", obj |-> o, outcome |-> "value", value |-> size(Data(o))]
    /\ UNCHANGED <<pma, heap, hist, outsidePMA>>

\* a call of at(index) on object o
At(o, index) ==
    /\ Live(o)
    /\ ret' = [op |-> "at", obj |-> o, index |-> index] @@ at(Data(o), index)
    /\ UNCHANGED <<pma, heap, hist, outsidePMA>>

\* a call of operator[](index) on object o
Index(o, index) ==
    /\ Live(o)
    /\ \E r \in Subscript(Data(o), index, pma[o].T) :
          ret' = [op |-> "operator[]", obj |-> o, index |-> index] @@ r
    /\ UNCHANGED <<pma, heap, hist, outsidePMA>>

\* a call of point(index) on object o
Point(o, index) ==
    /\ Live(o)
    /\ \E r \in point(Data(o), index, pma[o].T) :
          ret' = [op |-> "point", obj |-> o, index |-> index] @@ r
    /\ UNCHANGED <<pma, heap, hist, outsidePMA>>

\* a call of mass(index) on object o
Mass(o, index) ==
    /\ Live(o)
    /\ \E r \in mass(Data(o), index, pma[o].T) :
          ret' = [op |-> "mass", obj |-> o, index |-> index] @@ r
    /\ UNCHANGED <<pma, heap, hist, outsidePMA>>

\* a call of totalMass() on object o
TotalMass(o) ==
    /\ Live(o)
    /\ ret' = [op |-> "totalMass", obj |-> o, outcome |-> "value",
               value |-> totalMass(Data(o))]
    /\ UNCHANGED <<pma, heap, hist, outsidePMA>>

\* an assignment through the reference the non-const at(index) returns:
\* o.at(index) = elem
AssignAt(o, index, elem) ==
    /\ Live(o)
    /\ LET r == at(Data(o), index)
       IN  IF r.outcome = "value"
           THEN /\ heap' = [heap EXCEPT ![pma[o].data][index + 1] = elem]
                /\ hist' = [hist EXCEPT ![o] = NoHist]
                /\ ret' = [op |-> "assign", obj |-> o, index |-> index,
                           outcome |-> "ok"]
           ELSE /\ ret' = [op |-> "assign", obj |-> o, index |-> index,
                           outcome |-> "OutOfRange"]
                /\ UNCHANGED <<heap, hist>>
    /\ UNCHANGED <<pma, outsidePMA>>

\* the construction of dst, of particle type DestT, from src; a program with
\* a conversion whose Converter has no operator() does not link
ConvertConstruct(DestT) ==
    /\ Live("src")
    /\ ~Live("dst")
    /\ ConverterDefined(pma["src"].T, DestT)
    /\ pma' = [pma EXCEPT !["dst"] = [T |-> DestT, data |-> NewData]]
    /\ heap' = [heap EXCEPT ![NewData] = ConvertFrom(Data("src"), pma["src"].T, DestT)]
    /\ hist' = [hist EXCEPT !["dst"] = NoHist]
    /\ ret' = [op |-> "convert", obj |-> "dst", SrcT |-> pma["src"].T, DestT |-> DestT]
    /\ UNCHANGED outsidePMA

Indices == 0..MaxLen

NextPMA ==
    \/ \E T \in ParticleTypes : DefaultConstruct(T)
    \/ \E c \in CoordArrays, m \in MassArrays : Potential_initFromParticles(c, m)
    \/ \E o \in LiveObjs : \E first \in Entities(pma[o].T), second \in Weights :
          Add(o, first, second)
    \/ \E o \in Objs : Size(o)
    \/ \E o \in Objs, index \in Indices : At(o, index)
    \/ \E o \in Objs, index \in Indices : Index(o, index)
    \/ \E o \in Objs, index \in Indices : Point(o, index)
    \/ \E o \in Objs, index \in Indices : Mass(o, index)
    \/ \E o \in Objs : TotalMass(o)
    \/ \E o \in LiveObjs, index \in Indices : \E elem \in Elems(pma[o].T) :
          AssignAt(o, index, elem)

\* one collection: construction, appends, accessors
SpecPMA == InitPMA /\ [][NextPMA]_vars

InitConv ==
    /\ pma = [o \in Objs |-> NoObject]
    /\ heap = [b \in BufIds |-> <<>>]
    /\ hist = [o \in Objs |-> NoHist]
    /\ ret = NoCall
    /\ conv = DefaultUnits
    /\ DispIdle
    /\ ParIdle
    /\ ObjsIdle

NextConv ==
    \/ \E T \in ParticleTypes : DefaultConstruct(T)
    \/ \E DestT \in ParticleTypes : ConvertConstruct(DestT)
    \/ \E o \in LiveObjs : \E elem \in SampleElems(pma[o].T) :
          Add(o, elem.first, elem.second)
    \/ \E o \in LiveObjs, index \in Indices : \E elem \in SampleElems(pma[o].T) :
          AssignAt(o, index, elem)

\* a collection and the collection converted from it
SpecConv == InitConv /\ [][NextConv]_vars

-----------------------------------------------------------------------------
(* Properties of the containers *)

\* the sum of the weights of a sequence of elements
RECURSIVE WeightSum(_)
WeightSum(elems) ==
    IF elems = <<>> THEN 0 ELSE Head(elems).second + WeightSum(Tail(elems))

Accessors == {"at", "operator[]", "point", "mass"}

\* what an accessor returns for an element
Accessed(op, elem) ==
    CASE op = "point" -> elem.first
      [] op = "mass" -> elem.second
      [] OTHER -> elem

\* C1: an append of a pair with weight < 0 fails with InvalidArgument and
\* leaves the collection as it was
C1_NegativeAppendRejected ==
    [][\A o \in LiveObjs : \A first \in Entities(pma[o].T), second \in Weights :
          (second < 0 /\ Add(o, first, second))
              => (ret'.outcome = "InvalidArgument" /\ Data(o)' = Data(o))]_vars

\* C2: every stored element of every collection has weight >= 0
C2_WeightsNonNegative ==
    \A o \in LiveObjs : \A i \in 1..Len(Data(o)) : Data(o)[i].second >= 0

\* C3 as claimed: after appends only, size() is the number of appended
\* elements, every indexed access below size() returns the pair appended at
\* that position, and every indexed access at or past size() fails with
\* OutOfRange
C3_EveryAccessChecked ==
    /\ (ret.op = "size" /\ hist[ret.obj].onlyAppends)
          => ret.value = Len(hist[ret.obj].appended)
    /\ (ret.op \in Accessors /\ hist[ret.obj].onlyAppends)
          => IF ret.index < Len(hist[ret.obj].appended)
             THEN /\ ret.outcome = "value"
                  /\ ret.value = Accessed(ret.op, hist[ret.obj].appended[ret.index + 1])
             ELSE ret.outcome = "OutOfRange"

\* C3 as amended: after appends only, size() is the number of appended
\* elements, every indexed access below size() returns the pair appended at
\* that position, and at(index) at or past size() fails with OutOfRange
C3_OrderKeptAndAtChecked ==
    /\ (ret.op = "size" /\ hist[ret.obj].onlyAppends)
          => ret.value = Len(hist[ret.obj].appended)
    /\ (ret.op \in Accessors /\ hist[ret.obj].onlyAppends)
          => IF ret.index < Len(hist[ret.obj].appended)
             THEN /\ ret.outcome = "value"
                  /\ ret.value = Accessed(ret.op, hist[ret.obj].appended[ret.index + 1])
             ELSE ret.op = "at" => ret.outcome = "OutOfRange"

\* at(index) was called past the end of a collection of two appended pairs
C3_Witness ==
    /\ ret.op = "at"
    /\ ret.outcome = "OutOfRange"
    /\ hist[ret.obj].onlyAppends
    /\ Len(hist[ret.obj].appended) >= 2

\* C4: totalMass() returns the sum of the weights of the elements the
\* collection holds at the call, and 0 for an empty collection
C4_TotalMassIsWeightSum ==
    ret.op = "totalMass"
        => /\ ret.value = WeightSum(Data(ret.obj))
           /\ Data(ret.obj) = <<>> => ret.value = 0

\* totalMass() was called on two elements after an in-place change
C4_Witness ==
    /\ ret.op = "totalMass"
    /\ Len(Data(ret.obj)) >= 2
    /\ ~hist[ret.obj].onlyAppends
    /\ ret.value # 0

\* C5: the collection constructed from a source of K elements has K
\* elements, element i being the conversion of source element i with the
\* weight of source element i, so the total weight is that of the source
C5_ConversionElementwise ==
    ret.op = "convert"
        => LET s == Data("src")
               d == Data("dst")
           IN  /\ size(d) = size(s)
               /\ \A i \in 1..Len(s) :
                     /\ i <= Len(d)
                     /\ d[i].second = s[i].second
                     /\ d[i].first.cs = ret.DestT.cs
                     /\ d[i].first.pos = s[i].first.pos
                     /\ IF ret.DestT.kind = "PosVel"
                        THEN d[i].first.vel = s[i].first.vel
                        ELSE DOMAIN d[i].first = {"cs", "pos"}
               /\ WeightSum(d) = WeightSum(s)
               /\ totalMass(d) = totalMass(s)

\* two position+velocity elements were converted to positions in another
\* coordinate system
C5_Witness ==
    /\ ret.op = "convert"
    /\ size(Data("src")) >= 2
    /\ Data("src")[1] # Data("src")[2]
    /\ ret.SrcT.kind = "PosVel"
    /\ ret.DestT.kind = "Pos"
    /\ ret.SrcT.cs # ret.DestT.cs

Other(o) == IF o = "src" THEN "dst" ELSE "src"

\* C6: the conversion leaves the source as it was, and afterwards an append
\* to, or an element change in, one of the two collections leaves the other
\* as it was
C6_ConversionIndependent ==
    [][/\ ret'.op = "convert" => (pma'["src"] = pma["src"] /\ Data("src")' = Data("src"))
       /\ \A o \in Objs :
             (ret'.op \in {"add", "assign"} /\ ret'.obj = o /\ Live("src") /\ Live("dst"))
                 => Data(Other(o))' = Data(Other(o))]_vars

\* after the conversion both collections were changed, the source last
C6_Witness ==
    /\ Live("dst")
    /\ ret.op = "add"
    /\ ret.obj = "src"
    /\ size(Data("src")) > size(Data("dst"))
    /\ Data("dst") # <<>>
    /\ \E i \in 1..Len(Data("dst")) : Data("dst")[i].second # Data("src")[i].second

ValidKindPairs == {<<"PosVel", "PosVel">>, <<"PosVel", "Pos">>, <<"Pos", "Pos">>}

\* C7: a conversion can be constructed exactly for the kind pairs
\* position+velocity -> position+velocity, position+velocity -> position
\* and position -> position, in every pair of coordinate systems; no
\* collection of position+velocity is ever converted from positions
C7_ConversionPairs ==
    /\ ret.op = "convert" => <<ret.SrcT.kind, ret.DestT.kind>> \in ValidKindPairs
    /\ (Live("src") /\ Live("dst") /\ pma["src"].T.kind = "Pos")
          => pma["dst"].T.kind = "Pos"
    /\ (Live("src") /\ ~Live("dst"))
          => \A DestT \in ParticleTypes :
                (ENABLED ConvertConstruct(DestT))
                    <=> <<pma["src"].T.kind, DestT.kind>> \in ValidKindPairs

\* spherical position+velocity elements were converted to Cartesian positions
C7_Witness ==
    /\ ret.op = "convert"
    /\ ret.SrcT = [kind |-> "PosVel", cs |-> "Sph"]
    /\ ret.DestT = [kind |-> "Pos", cs |-> "Car"]
    /\ Data("dst") # <<>>

-----------------------------------------------------------------------------
(* Shape descriptors of the evaluation dispatcher *)

\* the largest number of rows of a sample batch
MaxRows == 2

INPUT_VALUE_TRIPLET == 3

INPUT_VALUE_SEXTET == 6

OUTPUT_VALUE_SINGLE == 1

OUTPUT_VALUE_TRIPLET == 3

OUTPUT_VALUE_TRIPLET_AND_SEXTET == 36

\* the value a double holds when it is not a number
NAN == -9999

\* inputLength<numArgs>()
inputLength(numArgs) ==
    CASE numArgs = INPUT_VALUE_TRIPLET -> 3
      [] numArgs = INPUT_VALUE_SEXTET -> 6

\* outputLength<numOutput>()
outputLength(numOutput) ==
    CASE numOutput = OUTPUT_VALUE_SINGLE -> 1
      [] numOutput = OUTPUT_VALUE_TRIPLET -> 3
      [] numOutput = OUTPUT_VALUE_TRIPLET_AND_SEXTET -> 9

\* parseTuple<numArgs>: PyArg_ParseTuple with one "d" per input number
parseTuple(numArgs, a) ==
    /\ Len(a) = inputLength(numArgs)
    /\ \A k \in 1..Len(a) : a[k].type = "float"

\* the input[] that a successful parseTuple has filled
parsedInput(a) == [k \in 1..Len(a) |-> a[k].val]

\* an errStrInvalidArrayDim with the message of the triplet for every arity
errStrInvalidArrayDim_triplet(numArgs) == "Input does not contain valid Nx3 array"

\* errStrInvalidArrayDim<numArgs>()
errStrInvalidArrayDim(numArgs) ==
    CASE numArgs = INPUT_VALUE_TRIPLET -> "Input does not contain valid Nx3 array"
      [] numArgs = INPUT_VALUE_SEXTET -> "Input does not contain valid Nx6 array"

\* errStrInvalidInput<numArgs>()
errStrInvalidInput(numArgs) ==
    CASE numArgs = INPUT_VALUE_TRIPLET ->
            "Input does not contain valid data (either 3 numbers for a single point or a Nx3 array)"
      [] numArgs = INPUT_VALUE_SEXTET ->
            "Input does not contain valid data (either 6 numbers for a single point or a Nx6 array)"

\* Py_BuildValue with one "d" per number of res[from..to]
BuildDoubles(res, from, to) == [k \in 1..(to - from + 1) |-> PyFloat(res[from + k - 1])]

\* a formatTuple that builds one flat tuple whatever the output format
formatTuple_flat(numOutput, res) ==
    IF numOutput = OUTPUT_VALUE_SINGLE THEN PyFloat(res[1])
    ELSE PyTuple(BuildDoubles(res, 1, outputLength(numOutput)))

\* formatTuple<numOutput>
formatTuple(numOutput, res) ==
    CASE numOutput = OUTPUT_VALUE_SINGLE -> PyFloat(res[1])
      [] numOutput = OUTPUT_VALUE_TRIPLET -> PyTuple(BuildDoubles(res, 1, 3))
      [] numOutput = OUTPUT_VALUE_TRIPLET_AND_SEXTET ->
            PyTuple(<<PyTuple(BuildDoubles(res, 1, 3)), PyTuple(BuildDoubles(res, 4, 9))>>)

\* what the memory of a new array may hold
JunkValues == {0, 77}

\* PyArray_SimpleNew: an array of the given dimensions, its cells not set
PyArray_SimpleNew(dims, cells, junk) == NdArray(dims, [k \in 1..cells |-> junk])

\* allocOutputArr<numOutput>
allocOutputArr(numOutput, sz, junk) ==
    CASE numOutput = OUTPUT_VALUE_SINGLE -> PyArray_SimpleNew(<<sz>>, sz, junk)
      [] numOutput = OUTPUT_VALUE_TRIPLET -> PyArray_SimpleNew(<<sz, 3>>, sz * 3, junk)
      [] numOutput = OUTPUT_VALUE_TRIPLET_AND_SEXTET ->
            PyTuple(<<PyArray_SimpleNew(<<sz, 3>>, sz * 3, junk),
                      PyArray_SimpleNew(<<sz, 6>>, sz * 6, junk)>>)

\* the loop for(d=0; d<width; d++) data[index*width+d] = res[d+shift]
RECURSIVE StoreLoop(_, _, _, _, _, _)
StoreLoop(data, index, width, res, shift, d) ==
    IF d < width
    THEN StoreLoop([data EXCEPT ![index * width + d + 1] = res[d + shift + 1]],
                   index, width, res, shift, d + 1)
    ELSE data

\* a formatOutputArr that stores every point in row 0
formatOutputArr_rowZero(numOutput, res, index, obj) ==
    CASE numOutput = OUTPUT_VALUE_SINGLE ->
            [obj EXCEPT !.data[1] = res[1]]
      [] numOutput = OUTPUT_VALUE_TRIPLET ->
            [obj EXCEPT !.data = StoreLoop(@, 0, 3, res, 0, 0)]
      [] numOutput = OUTPUT_VALUE_TRIPLET_AND_SEXTET ->
            [obj EXCEPT !.items[1].data = StoreLoop(@, 0, 3, res, 0, 0),
                        !.items[2].data = StoreLoop(@, 0, 6, res, 3, 0)]

\* a formatOutputArr that stores result[d] instead of result[d+3] in the sextet
formatOutputArr_noShift(numOutput, res, index, obj) ==
    CASE numOutput = OUTPUT_VALUE_SINGLE ->
            [obj EXCEPT !.data[index + 1] = res[1]]
      [] numOutput = OUTPUT_VALUE_TRIPLET ->
            [obj EXCEPT !.data = StoreLoop(@, index, 3, res, 0, 0)]
      [] numOutput = OUTPUT_VALUE_TRIPLET_AND_SEXTET ->
            [obj EXCEPT !.items[1].data = StoreLoop(@, index, 3, res, 0, 0),
                        !.items[2].data = StoreLoop(@, index, 6, res, 0, 0)]

\* a formatOutputArr that stores result[d+3] in the triplet too
formatOutputArr_tripletShift(numOutput, res, index, obj) ==
    CASE numOutput = OUTPUT_VALUE_SINGLE ->
            [obj EXCEPT !.data[index + 1] = res[1]]
      [] numOutput = OUTPUT_VALUE_TRIPLET ->
            [obj EXCEPT !.data = StoreLoop(@, index, 3, res, 0, 0)]
      [] numOutput = OUTPUT_VALUE_TRIPLET_AND_SEXTET ->
            [obj EXCEPT !.items[1].data = StoreLoop(@, index, 3, res, 3, 0),
                        !.items[2].data = StoreLoop(@, index, 6, res, 3, 0)]

\* a formatOutputArr that stores the point in row 0 as well as in its own row
formatOutputArr_alsoFirst(numOutput, res, index, obj) ==
    CASE numOutput = OUTPUT_VALUE_SINGLE ->
            [obj EXCEPT !.data[index + 1] = res[1], !.data[1] = res[1]]
      [] numOutput = OUTPUT_VALUE_TRIPLET ->
            [obj EXCEPT !.data = StoreLoop(StoreLoop(@, index, 3, res, 0, 0), 0, 3, res, 0, 0)]
      [] numOutput = OUTPUT_VALUE_TRIPLET_AND_SEXTET ->
            [obj EXCEPT !.items[1].data = StoreLoop(StoreLoop(@, index, 3, res, 0, 0), 0, 3, res, 0, 0),
                        !.items[2].data = StoreLoop(StoreLoop(@, index, 6, res, 3, 0), 0, 6, res, 3, 0)]

\* formatOutputArr<numOutput>
formatOutputArr(numOutput, res, index, obj) ==
    CASE numOutput = OUTPUT_VALUE_SINGLE ->
            [obj EXCEPT !.data[index + 1] = res[1]]
      [] numOutput = OUTPUT_VALUE_TRIPLET ->
            [obj EXCEPT !.data = StoreLoop(@, index, 3, res, 0, 0)]
      [] numOutput = OUTPUT_VALUE_TRIPLET_AND_SEXTET ->
            [obj EXCEPT !.items[1].data = StoreLoop(@, index, 3, res, 0, 0),
                        !.items[2].data = StoreLoop(@, index, 6, res, 3, 0)]

-----------------------------------------------------------------------------
(* The computation targets and the functions that evaluate them *)

\* the evaluation of the model fails at this point
DomainError(pt) == \A d \in 1..Len(pt) : pt[d] = 0

\* BasePotential::value
potValue(pt) == -(4 * pt[1] + 2 * pt[2] + 8 * pt[3]) - 4

\* BasePotential::density
potDensity(pt) == 3 * (pt[1] + pt[2] + pt[3])

\* BasePotential::eval: the gradient dx, dy, dz
potGrad(pt) == <<2 * pt[1], 4 * pt[2], 6 * pt[3]>>

\* BasePotential::eval: the hessian dx2, dy2, dz2, dxdy, dydz, dxdz
potHess(pt) ==
    <<2 * pt[1] + 2, 2 * pt[2] + 4, 2 * pt[3] + 6,
      2 * pt[1] * pt[2], 2 * pt[2] * pt[3], 2 * pt[1] * pt[3]>>

\* BaseActionFinder::actions of coord::toPosVelCyl(point): Jr, Jz, Jphi
finderActions(pt) == <<4 * (pt[1] + pt[4]), 4 * (pt[2] + pt[5]), 4 * (pt[3] + pt[6])>>

pow_2(x) == x * x

\* the input point in internal length units
ScaledPos(input) == [d \in 1..3 |-> input[d] * conv.lengthUnit]

\* the input point and velocity in internal units
ScaledPosVel(input) ==
    [d \in 1..6 |-> IF d <= 3 THEN input[d] * conv.lengthUnit
                    ELSE input[d] * conv.velocityUnit]

Returned(res) == [threw |-> FALSE, result |-> res]

Thrown == [threw |-> TRUE]

fncPotential(input) ==
    IF DomainError(ScaledPos(input)) THEN Thrown
    ELSE Returned(<<potValue(ScaledPos(input)) \div pow_2(conv.velocityUnit)>>)

fncDensity(input) ==
    IF DomainError(ScaledPos(input)) THEN Thrown
    ELSE Returned(<<(potDensity(ScaledPos(input)) * pow_2(conv.lengthUnit))
                        \div conv.massUnit>>)

fncForce(input) ==
    IF DomainError(ScaledPos(input)) THEN Thrown
    ELSE LET grad == potGrad(ScaledPos(input))
         IN  Returned([d \in 1..3 |-> (-grad[d] * conv.timeUnit) \div conv.velocityUnit])

fncForceDeriv(input) ==
    IF DomainError(ScaledPos(input)) THEN Thrown
    ELSE LET grad == potGrad(ScaledPos(input))
             hess == potHess(ScaledPos(input))
         IN  Returned([d \in 1..9 |->
                IF d <= 3
                THEN (-grad[d] * conv.timeUnit) \div conv.velocityUnit
                ELSE (-hess[d - 3] * pow_2(conv.timeUnit)) \div conv.velocityUnit])

\* an fncActions that lets the exception through
fncActions_rethrow(input) ==
    IF DomainError(ScaledPosVel(input)) THEN Thrown
    ELSE LET acts == finderActions(ScaledPosVel(input))
         IN  Returned([d \in 1..3 |-> acts[d] \div (conv.velocityUnit * conv.lengthUnit)])

\* fncActions catches the exception and stores NAN
fncActions(input) ==
    IF DomainError(ScaledPosVel(input)) THEN Returned(<<NAN, NAN, NAN>>)
    ELSE LET acts == finderActions(ScaledPosVel(input))
         IN  Returned([d \in 1..3 |-> acts[d] \div (conv.velocityUnit * conv.lengthUnit)])

\* the methods that evaluate through callAnyFunctionOnArray
Methods == {"potential", "density", "force", "force_deriv", "actions"}

\* the instantiation of callAnyFunctionOnArray a method calls
numArgsOf(m) == IF m = "actions" THEN INPUT_VALUE_SEXTET ELSE INPUT_VALUE_TRIPLET

numOutputOf(m) ==
    CASE m \in {"potential", "density"} -> OUTPUT_VALUE_SINGLE
      [] m \in {"force", "actions"} -> OUTPUT_VALUE_TRIPLET
      [] m = "force_deriv" -> OUTPUT_VALUE_TRIPLET_AND_SEXTET

\* the call fnc(self, input, result) of method m
fnc(m, input) ==
    CASE m = "potential" -> fncPotential(input)
      [] m = "density" -> fncDensity(input)
      [] m = "force" -> fncForce(input)
      [] m = "force_deriv" -> fncForceDeriv(input)
      [] m = "actions" -> fncActions(input)

-----------------------------------------------------------------------------
(* callAnyFunctionOnArray *)

\* PyArray_FROM_OTF(obj, NPY_DOUBLE, NPY_ARRAY_IN_ARRAY): a new reference to
\* obj when it is an array of doubles, to a new array made from it when it
\* is a number or a list, and NULL when nothing can be made
PyArray_FROM_OTF(obj) ==
    CASE obj.type = "ndarray" -> [obj |-> obj, fresh |-> FALSE, refs |-> 1]
      [] obj.type = "list" -> [obj |-> Array1(obj.items), fresh |-> TRUE, refs |-> 1]
      [] obj.type = "float" -> [obj |-> NdArray(<<>>, <<obj.val>>), fresh |-> TRUE, refs |-> 1]
      [] OTHER -> NULL

\* Py_DECREF(arr)
Py_DECREF(a) == [a EXCEPT !.refs = @ - 1]

\* the numArgs doubles that start at PyArray_GETPTR1(arr, 0)
PointAt1(a, numArgs) == [d \in 1..inputLength(numArgs) |-> PyArray_GETPTR1(a, d - 1)]

\* the numArgs doubles that start at PyArray_GETPTR2(arr, i, 0)
PointAt2(a, i, numArgs) == [d \in 1..inputLength(numArgs) |-> PyArray_GETPTR2(a, i, d - 1)]

ExceptionOccured == "Exception occured: domain error"

\* the call returns val with the error indicator err
Return(val, err) ==
    /\ pc' = "returned"
    /\ retval' = val
    /\ pyerr' = err

\* the call of a method: the check of the object, then
\* callAnyFunctionOnArray up to its return or up to the start of its loop
Call(m, a) ==
    /\ pc = "idle"
    /\ method' = m
    /\ args' = a
    /\ idx' = 0
    /\ LET numArgs == numArgsOf(m)
           numOutput == numOutputOf(m)
       IN
       IF ~selfOk
       THEN \* Potential_isCorrect sets an error; ActionFinder_actions sets none
            /\ Return(NULL, IF m = "actions" THEN "none"
                            ELSE "Potential is not initialized properly")
            /\ UNCHANGED <<arr, numpt, resultObj, result, fncCalls>>
       ELSE IF parseTuple(numArgs, a)
       THEN \* one point
            LET r == fnc(m, parsedInput(a))
            IN  /\ fncCalls' = <<parsedInput(a)>>
                /\ IF r.threw
                   THEN Return(NULL, ExceptionOccured) /\ UNCHANGED result
                   ELSE Return(formatTuple(numOutput, r.result), "none")
                            /\ result' = r.result
                /\ UNCHANGED <<arr, numpt, resultObj>>
       ELSE IF Len(a) # 1
       THEN /\ Return(NULL, errStrInvalidInput(numArgs))
            /\ UNCHANGED <<arr, numpt, resultObj, result, fncCalls>>
       ELSE LET array == PyArray_FROM_OTF(a[1])
            IN
            IF array = NULL
            THEN /\ Return(NULL, "Input does not contain a valid array")
                 /\ UNCHANGED <<arr, numpt, resultObj, result, fncCalls>>
            ELSE IF PyArray_NDIM(array.obj) = 1 /\ PyArray_DIM(array.obj, 0) = numArgs
            THEN \* 1d array of length numArgs - a single point
                 LET input == PointAt1(array.obj, numArgs)
                     r == fnc(m, input)
                 IN  /\ fncCalls' = <<input>>
                     /\ IF r.threw
                        THEN /\ Return(NULL, ExceptionOccured)
                             /\ arr' = array
                             /\ UNCHANGED result
                        ELSE /\ Return(formatTuple(numOutput, r.result), "none")
                             /\ arr' = Py_DECREF(array)
                             /\ result' = r.result
                     /\ UNCHANGED <<numpt, resultObj>>
            ELSE IF PyArray_NDIM(array.obj) = 2 /\ PyArray_DIM(array.obj, 1) = numArgs
            THEN \* allocate an appropriate output object
                 /\ numpt' = PyArray_DIM(array.obj, 0)
                 /\ \E junk \in JunkValues :
                       resultObj' = allocOutputArr(numOutput, PyArray_DIM(array.obj, 0), junk)
                 /\ arr' = array
                 /\ pc' = "loop"
                 /\ UNCHANGED <<result, fncCalls, retval, pyerr>>
            ELSE /\ Return(NULL, errStrInvalidArrayDim(numArgs))
                 /\ arr' = Py_DECREF(array)
                 /\ UNCHANGED <<numpt, resultObj, result, fncCalls>>
    /\ UNCHANGED <<selfOk, outsideDisp>>

\* an iteration that goes on to the next row when fnc raises
LoopStep_skipOnThrow ==
    /\ pc = "loop"
    /\ idx < numpt
    /\ LET input == PointAt2(arr.obj, idx, numArgsOf(method))
           r == fnc(method, input)
       IN  /\ fncCalls' = Append(fncCalls, input)
           /\ idx' = idx + 1
           /\ IF r.threw
              THEN UNCHANGED <<result, resultObj>>
              ELSE /\ result' = r.result
                   /\ resultObj' = formatOutputArr(numOutputOf(method), r.result, idx, resultObj)
    /\ UNCHANGED <<method, args, selfOk, arr, numpt, pc, retval, pyerr, outsideDisp>>

\* a loop that takes the rows from the last to the first
LoopStep_descending ==
    /\ pc = "loop"
    /\ idx < numpt
    /\ LET row == numpt - 1 - idx
           input == PointAt2(arr.obj, row, numArgsOf(method))
           r == fnc(method, input)
       IN  /\ fncCalls' = Append(fncCalls, input)
           /\ IF r.threw
              THEN /\ Return(NULL, ExceptionOccured)
                   /\ UNCHANGED <<idx, result, resultObj>>
              ELSE /\ result' = r.result
                   /\ resultObj' = formatOutputArr(numOutputOf(method), r.result, row, resultObj)
                   /\ idx' = idx + 1
                   /\ UNCHANGED <<pc, retval, pyerr>>
    /\ UNCHANGED <<method, args, selfOk, arr, numpt, outsideDisp>>

\* one iteration of the loop over the input array
LoopStep ==
    /\ pc = "loop"
    /\ idx < numpt
    /\ LET input == PointAt2(arr.obj, idx, numArgsOf(method))
           r == fnc(method, input)
       IN  /\ fncCalls' = Append(fncCalls, input)
           /\ IF r.threw
              THEN /\ Return(NULL, ExceptionOccured)
                   /\ UNCHANGED <<idx, result, resultObj>>
              ELSE /\ result' = r.result
                   /\ resultObj' = formatOutputArr(numOutputOf(method), r.result, idx, resultObj)
                   /\ idx' = idx + 1
                   /\ UNCHANGED <<pc, retval, pyerr>>
    /\ UNCHANGED <<method, args, selfOk, arr, numpt, outsideDisp>>

\* a LoopEnd that rejects a batch of no rows
LoopEnd_rejectEmpty ==
    /\ pc = "loop"
    /\ ~(idx < numpt)
    /\ arr' = Py_DECREF(arr)
    /\ IF numpt = 0
       THEN Return(NULL, errStrInvalidArrayDim(numArgsOf(method)))
       ELSE Return(resultObj, "none")
    /\ UNCHANGED <<method, args, selfOk, numpt, resultObj, idx, result, fncCalls,
                   outsideDisp>>

\* the end of the loop: the output object is returned
LoopEnd ==
    /\ pc = "loop"
    /\ ~(idx < numpt)
    /\ arr' = Py_DECREF(arr)
    /\ Return(resultObj, "none")
    /\ UNCHANGED <<method, args, selfOk, numpt, resultObj, idx, result, fncCalls,
                   outsideDisp>>

\* sample points of numArgs numbers; the first is a point of domain error
SamplePoints(numArgs) == {[d \in 1..inputLength(numArgs) |-> s * d] : s \in 0..2}

\* one sample point
OnePoint(numArgs) == [d \in 1..inputLength(numArgs) |-> d]

\* sample argument tuples of several objects: the numbers of a point, no
\* argument, a number too few, and a string among the numbers
FlatArgs(numArgs) ==
    {[d \in 1..inputLength(numArgs) |-> PyFloat(pt[d])] : pt \in SamplePoints(numArgs)}
    \cup {<<>>,
          [d \in 1..(inputLength(numArgs) - 1) |-> PyFloat(d)],
          [d \in 1..inputLength(numArgs) |-> IF d = 2 THEN PyStr ELSE PyFloat(d)]}

\* sample arrays: a point as a 1-D array, a longer 1-D array, batches of up
\* to MaxRows points, a square array one wider than a point, a 3-D array
SampleArrays(numArgs) ==
    {Array1(pt) : pt \in SamplePoints(numArgs)}
    \cup {Array1(OnePoint(numArgs) \o <<7>>)}
    \cup {Array2(rows, inputLength(numArgs)) :
            rows \in SeqsUpTo(SamplePoints(numArgs), MaxRows)}
    \cup {Array2([i \in 1..(inputLength(numArgs) + 1) |-> OnePoint(numArgs) \o <<i>>],
                 inputLength(numArgs) + 1)}
    \cup {NdArray(<<1, 1, inputLength(numArgs)>>, OnePoint(numArgs))}

\* sample argument tuples of one object
ObjArgs(numArgs) ==
    {<<o>> : o \in {PyFloat(1), PyStr}
                   \cup {PyList(pt) : pt \in SamplePoints(numArgs)}
                   \cup SampleArrays(numArgs)}

-----------------------------------------------------------------------------
(* SplineApprox_value *)

\* a Python int
PyInt(v) == [type |-> "int", val |-> v]

\* math::CubicSpline::value
splValue(x) == 3 * x + 1

\* math::CubicSpline::evalDeriv: the first derivative
splDeriv(x) == 2 * x + 3

\* math::CubicSpline::evalDeriv: the second derivative
splDeriv2(x) == x + 5

spl_eval(x, der) ==
    CASE der = 0 -> splValue(x)
      [] der = 1 -> splDeriv(x)
      [] der = 2 -> splDeriv2(x)
      [] OTHER -> NAN

\* PyArg_ParseTuple(args, "O|i", &ptx, &der)
parseValueArgs(a) ==
    \/ Len(a) = 1
    \/ Len(a) = 2 /\ a[2].type = "int"

\* a PyArray_FROM_OTF that returns the array it is given
PyArray_FROM_OTF_noCopy(obj) ==
    CASE obj.type = "ndarray" -> [obj |-> obj, fresh |-> FALSE, refs |-> 1]
      [] obj.type = "list" -> [obj |-> Array1(obj.items), fresh |-> TRUE, refs |-> 1]
      [] obj.type = "float" -> [obj |-> NdArray(<<>>, <<obj.val>>), fresh |-> TRUE, refs |-> 1]
      [] OTHER -> NULL

\* PyArray_FROM_OTF(ptx, NPY_DOUBLE, NPY_ARRAY_OUT_ARRAY | NPY_ARRAY_ENSURECOPY):
\* always a new array
PyArray_FROM_OTF_copy(obj) ==
    CASE obj.type = "ndarray" -> [obj |-> obj, fresh |-> TRUE, refs |-> 1]
      [] obj.type = "list" -> [obj |-> Array1(obj.items), fresh |-> TRUE, refs |-> 1]
      [] obj.type = "float" -> [obj |-> NdArray(<<>>, <<obj.val>>), fresh |-> TRUE, refs |-> 1]
      [] OTHER -> NULL

\* the loop that replaces the elements of the array with the computed values
RECURSIVE ReplaceLoop(_, _, _)
ReplaceLoop(data, der, i) ==
    IF i < Len(data)
    THEN ReplaceLoop([data EXCEPT ![i + 1] = spl_eval(data[i + 1], der)], der, i + 1)
    ELSE data

\* SplineApprox_value: the call of a SplineApprox object
SplineApprox_value(a) ==
    /\ pc = "idle"
    /\ method' = "value"
    /\ args' = a
    /\ LET der == IF Len(a) = 2 THEN a[2].val ELSE 0
           array == PyArray_FROM_OTF_copy(a[1])
       IN
       IF ~selfOk
       THEN \* spl==NULL: no error is set
            Return(NULL, "none") /\ UNCHANGED arr
       ELSE IF ~parseValueArgs(a)
       THEN Return(NULL, "TypeError") /\ UNCHANGED arr
       ELSE IF der > 2
       THEN Return(NULL, "Can only compute derivatives up to 2nd") /\ UNCHANGED arr
       ELSE IF a[1].type = "float"
       THEN Return(PyFloat(spl_eval(a[1].val, der)), "none") /\ UNCHANGED arr
       ELSE IF array = NULL
       THEN Return(NULL, "Argument must be either float, list or numpy array")
                /\ UNCHANGED arr
       ELSE /\ arr' = [array EXCEPT !.obj.data = ReplaceLoop(@, der, 0)]
            /\ Return(arr'.obj, "none")
    /\ UNCHANGED <<selfOk, numpt, resultObj, idx, result, fncCalls, outsideDisp>>

\* sample arguments: a number, a list, arrays and a string, with and without
\* the index of the derivative; no argument; a derivative that is no integer
ValueArgs ==
    LET xs == {PyFloat(2), PyStr, PyList(<<1, 2>>), Array1(<<1, 2, 4>>),
               Array2(<<<<1, 2>>, <<4, 8>>>>, 2)}
    IN  {<<x>> : x \in xs}
        \cup {<<x, PyInt(der)>> : x \in xs, der \in -1..3}
        \cup {<<>>, <<PyFloat(2), PyStr>>}

InitDisp ==
    /\ pma = [o \in Objs |-> NoObject]
    /\ heap = [b \in BufIds |-> <<>>]
    /\ hist = [o \in Objs |-> NoHist]
    /\ ret = NoCall
    /\ conv \in UnitSystems
    /\ method = "none"
    /\ args = <<>>
    /\ selfOk \in BOOLEAN
    /\ pc = "idle"
    /\ arr = NULL
    /\ numpt = 0
    /\ resultObj = NULL
    /\ idx = 0
    /\ result = <<>>
    /\ fncCalls = <<>>
    /\ retval = NULL
    /\ pyerr = "none"
    /\ ParIdle
    /\ ObjsIdle

NextDisp ==
    \/ \E m \in Methods : \E a \in FlatArgs(numArgsOf(m)) \cup ObjArgs(numArgsOf(m)) :
          Call(m, a)
    \/ LoopStep
    \/ LoopEnd
    \/ \E a \in ValueArgs : SplineApprox_value(a)

\* one evaluation call on a Potential or ActionFinder object
SpecDisp == InitDisp /\ [][NextDisp]_vars

-----------------------------------------------------------------------------
(* Properties of the dispatcher *)

\* the argument tuple is the numbers of one point
IsFlatPoint(a, n) == Len(a) = n /\ \A k \in 1..Len(a) : a[k].type = "float"

\* the argument tuple is one 1-D array, or list, of the numbers of a point
IsArrayPoint(a, n) ==
    /\ Len(a) = 1
    /\ \/ a[1].type = "ndarray" /\ a[1].ndim = 1 /\ a[1].dims[1] = n
       \/ a[1].type = "list" /\ Len(a[1].items) = n

\* the argument tuple is one 2-D array with n columns
IsBatch(a, n) ==
    Len(a) = 1 /\ a[1].type = "ndarray" /\ a[1].ndim = 2 /\ a[1].dims[2] = n

\* the numbers of the point of a single-point argument tuple
PointOf(a) ==
    IF Len(a) = 1
    THEN IF a[1].type = "list" THEN a[1].items ELSE a[1].data
    ELSE [k \in 1..Len(a) |-> a[k].val]

\* row i of the array of a batch argument tuple
RowOf(a, i) == [d \in 1..a[1].dims[2] |-> a[1].data[i * a[1].dims[2] + d]]

\* the numbers held by a float, a tuple of floats or a tuple of such tuples
RECURSIVE Flat(_)
Flat(obj) ==
    IF obj.type = "float" THEN <<obj.val>>
    ELSE IF obj.items = <<>> THEN <<>>
    ELSE Flat(Head(obj.items)) \o Flat(PyTuple(Tail(obj.items)))

\* the numbers of row i of an output array, or of a tuple of output arrays
RECURSIVE RowValues(_, _)
RowValues(out, i) ==
    CASE out.type = "ndarray" /\ out.ndim = 1 -> <<out.data[i + 1]>>
      [] out.type = "ndarray" /\ out.ndim = 2 ->
            [d \in 1..out.dims[2] |-> out.data[i * out.dims[2] + d]]
      [] out.type = "tuple" -> RowValues(out.items[1], i) \o RowValues(out.items[2], i)

IsFloats(obj, n) ==
    obj.type = "tuple" /\ Len(obj.items) = n /\ \A k \in 1..n : obj.items[k].type = "float"

\* the result has the form of one point of the output format
SingleForm(obj, numOutput) ==
    CASE numOutput = OUTPUT_VALUE_SINGLE -> obj.type = "float"
      [] numOutput = OUTPUT_VALUE_TRIPLET -> IsFloats(obj, 3)
      [] numOutput = OUTPUT_VALUE_TRIPLET_AND_SEXTET ->
            /\ obj.type = "tuple"
            /\ Len(obj.items) = 2
            /\ IsFloats(obj.items[1], 3)
            /\ IsFloats(obj.items[2], 6)

IsArrayOf(obj, dims) == obj.type = "ndarray" /\ obj.dims = dims

\* the result has the form of n points of the output format
BatchForm(obj, numOutput, n) ==
    CASE numOutput = OUTPUT_VALUE_SINGLE -> IsArrayOf(obj, <<n>>)
      [] numOutput = OUTPUT_VALUE_TRIPLET -> IsArrayOf(obj, <<n, 3>>)
      [] numOutput = OUTPUT_VALUE_TRIPLET_AND_SEXTET ->
            /\ obj.type = "tuple"
            /\ Len(obj.items) = 2
            /\ IsArrayOf(obj.items[1], <<n, 3>>)
            /\ IsArrayOf(obj.items[2], <<n, 6>>)

\* the call was made on an object that holds its model, and has returned
Completed == pc = "returned" /\ selfOk /\ method \in Methods

\* C8: called with one point, as the numbers themselves or as a 1-D array
\* of them, the dispatcher invokes the function once, on those numbers,
\* and returns, in the single-point form of the output format and not as an
\* array, the numbers the function wrote, whichever the form of the input
C8_SinglePoint ==
    (/\ Completed
     /\ \/ IsFlatPoint(args, inputLength(numArgsOf(method)))
        \/ IsArrayPoint(args, inputLength(numArgsOf(method))))
        => /\ fncCalls = <<PointOf(args)>>
           /\ ~fnc(method, PointOf(args)).threw
                 => /\ pyerr = "none"
                    /\ SingleForm(retval, numOutputOf(method))
                    /\ Flat(retval) = fnc(method, PointOf(args)).result

\* a force and its derivatives were computed for a point given as a 1-D array
C8_Witness ==
    /\ Completed
    /\ method = "force_deriv"
    /\ IsArrayPoint(args, 3)
    /\ args[1].type = "ndarray"
    /\ pyerr = "none"
    /\ retval # NULL

\* C9: called with a 2-D array of N rows of points on none of which the
\* function raises, the dispatcher returns output of exactly N rows, row i
\* of which holds what the function wrote for input row i, the numbers of
\* the single-point result for that row
C9_BatchRows ==
    (/\ Completed
     /\ IsBatch(args, inputLength(numArgsOf(method)))
     /\ \A i \in 0..(args[1].dims[1] - 1) : ~fnc(method, RowOf(args, i)).threw)
        => /\ pyerr = "none"
           /\ BatchForm(retval, numOutputOf(method), args[1].dims[1])
           /\ \A i \in 0..(args[1].dims[1] - 1) :
                 /\ RowValues(retval, i) = fnc(method, RowOf(args, i)).result
                 /\ RowValues(retval, i) =
                        Flat(formatTuple(numOutputOf(method),
                                         fnc(method, RowOf(args, i)).result))

\* a batch of two different points was evaluated
C9_Witness ==
    /\ Completed
    /\ pyerr = "none"
    /\ IsBatch(args, 3)
    /\ args[1].dims[1] = 2
    /\ RowOf(args, 0) # RowOf(args, 1)
    /\ method = "force"

\* C10 as claimed: a 2-D array of one row returns what the single-point
\* call on the numbers of the row returns, in the same form
C10_BatchOfOneIsSinglePoint ==
    (/\ Completed
     /\ IsBatch(args, inputLength(numArgsOf(method)))
     /\ args[1].dims[1] = 1
     /\ ~fnc(method, RowOf(args, 0)).threw)
        => retval = formatTuple(numOutputOf(method), fnc(method, RowOf(args, 0)).result)

\* C10 as amended: a 2-D array of one row returns output in the batch form,
\* with one row, and that row holds the numbers of the single-point result
C10_BatchOfOneIsOneRow ==
    (/\ Completed
     /\ IsBatch(args, inputLength(numArgsOf(method)))
     /\ args[1].dims[1] = 1
     /\ ~fnc(method, RowOf(args, 0)).threw)
        => /\ pyerr = "none"
           /\ BatchForm(retval, numOutputOf(method), 1)
           /\ ~SingleForm(retval, numOutputOf(method))
           /\ RowValues(retval, 0) =
                  Flat(formatTuple(numOutputOf(method), fnc(method, RowOf(args, 0)).result))

\* a batch of one point was evaluated for the force and its derivatives
C10_Witness ==
    /\ Completed
    /\ pyerr = "none"
    /\ IsBatch(args, 3)
    /\ args[1].dims[1] = 1
    /\ method = "force_deriv"

\* the argument tuple is one array-like object: an array, a list, a number
IsArrayLike(a) ==
    Len(a) = 1 /\ a[1].type \in {"ndarray", "list", "float"}

\* the rows of a batch argument tuple
RowsOf(a) == 0..(a[1].dims[1] - 1)

\* the rows of a batch argument tuple on which the function raises
ThrowingRows(m, a) == {i \in RowsOf(a) : fnc(m, RowOf(a, i)).threw}

\* the least of a non-empty set of numbers
Least(S) == CHOOSE i \in S : \A j \in S : i <= j

\* C11: an array-like input that is neither 1-D of the length of a point nor
\* 2-D with the width of a point fails with the message of invalid array
\* dimensions of that arity; the function is not invoked, no output is returned
C11_InvalidShape ==
    (/\ Completed
     /\ IsArrayLike(args)
     /\ ~IsArrayPoint(args, inputLength(numArgsOf(method)))
     /\ ~IsBatch(args, inputLength(numArgsOf(method))))
        => /\ pyerr = (IF inputLength(numArgsOf(method)) = 3
                       THEN "Input does not contain valid Nx3 array"
                       ELSE "Input does not contain valid Nx6 array")
           /\ retval = NULL
           /\ resultObj = NULL
           /\ fncCalls = <<>>

\* a square array one wider than a point was given to the actions method
C11_Witness ==
    /\ Completed
    /\ method = "actions"
    /\ IsArrayLike(args)
    /\ args[1].type = "ndarray"
    /\ args[1].dims = <<7, 7>>
    /\ retval = NULL

\* C12: when the function raises on the point of a single-point call, or on
\* a row of a batch, the call ends at that invocation, returns no object and
\* sets an error, whatever the row and however many rows were written before
C12_ErrorAborts ==
    /\ (/\ Completed
        /\ \/ IsFlatPoint(args, inputLength(numArgsOf(method)))
           \/ IsArrayPoint(args, inputLength(numArgsOf(method)))
        /\ fnc(method, PointOf(args)).threw)
          => /\ retval = NULL
             /\ pyerr # "none"
             /\ fncCalls = <<PointOf(args)>>
    /\ (/\ Completed
        /\ IsBatch(args, inputLength(numArgsOf(method)))
        /\ ThrowingRows(method, args) # {})
          => /\ retval = NULL
             /\ pyerr # "none"
             /\ Len(fncCalls) = Least(ThrowingRows(method, args)) + 1
             /\ idx = Least(ThrowingRows(method, args))

\* the function raised on the second row of a batch, the first row written
C12_Witness ==
    /\ Completed
    /\ IsBatch(args, 3)
    /\ ThrowingRows(method, args) = {1}
    /\ idx = 1
    /\ pyerr = ExceptionOccured

\* C13: the force and its derivatives are returned apart: for a batch of N
\* points an N x 3 and an N x 6 array, row i of the first holding the first
\* 3 and row i of the second the last 6 of the 9 values computed for point
\* i; for one point a tuple of 3 and a tuple of 6 values
C13_TripletAndSextet ==
    (Completed /\ method = "force_deriv" /\ pyerr = "none")
        => /\ retval.type = "tuple"
           /\ Len(retval.items) = 2
           /\ IsBatch(args, 3) =>
                 /\ IsArrayOf(retval.items[1], <<args[1].dims[1], 3>>)
                 /\ IsArrayOf(retval.items[2], <<args[1].dims[1], 6>>)
                 /\ \A i \in RowsOf(args) :
                       /\ RowValues(retval.items[1], i) =
                              SubSeq(fncForceDeriv(RowOf(args, i)).result, 1, 3)
                       /\ RowValues(retval.items[2], i) =
                              SubSeq(fncForceDeriv(RowOf(args, i)).result, 4, 9)
           /\ ~IsBatch(args, 3) =>
                 /\ IsFloats(retval.items[1], 3)
                 /\ IsFloats(retval.items[2], 6)
                 /\ Flat(retval.items[1]) = SubSeq(fncForceDeriv(PointOf(args)).result, 1, 3)
                 /\ Flat(retval.items[2]) = SubSeq(fncForceDeriv(PointOf(args)).result, 4, 9)

\* the force and its derivatives were computed for a batch of two points
C13_Witness ==
    /\ Completed
    /\ method = "force_deriv"
    /\ pyerr = "none"
    /\ IsBatch(args, 3)
    /\ args[1].dims[1] = 2
    /\ retval # NULL

\* the actions of a point at which the action finder does not fail
ActionsOf(pt) ==
    [d \in 1..3 |-> finderActions(ScaledPosVel(pt))[d]
                        \div (conv.velocityUnit * conv.lengthUnit)]

\* what the actions method holds for a point
ActionsOrNaN(pt) ==
    IF DomainError(ScaledPosVel(pt)) THEN <<NAN, NAN, NAN>> ELSE ActionsOf(pt)

\* C16: the actions method succeeds whatever the points; the three values
\* of a point at which the action finder fails are not-a-number, and the
\* other rows of a batch hold their computed values
C16_ActionsSentinel ==
    (Completed /\ method = "actions")
        => /\ (IsFlatPoint(args, 6) \/ IsArrayPoint(args, 6))
                 => /\ pyerr = "none"
                    /\ IsFloats(retval, 3)
                    /\ Flat(retval) = ActionsOrNaN(PointOf(args))
           /\ IsBatch(args, 6)
                 => /\ pyerr = "none"
                    /\ IsArrayOf(retval, <<args[1].dims[1], 3>>)
                    /\ \A i \in RowsOf(args) :
                          RowValues(retval, i) = ActionsOrNaN(RowOf(args, i))

\* the action finder failed at the first of two points and not at the second
C16_Witness ==
    /\ Completed
    /\ method = "actions"
    /\ IsBatch(args, 6)
    /\ args[1].dims[1] = 2
    /\ DomainError(ScaledPosVel(RowOf(args, 0)))
    /\ ~DomainError(ScaledPosVel(RowOf(args, 1)))
    /\ retval # NULL
    /\ RowValues(retval, 0) = <<NAN, NAN, NAN>>

\* the dimensions of the output object
ShapeOf(obj) ==
    IF obj.type = "tuple" THEN <<obj.items[1].dims, obj.items[2].dims>> ELSE <<obj.dims>>

\* C20: in a batch call the output is allocated, with its N rows, before
\* the first invocation and keeps its dimensions; the k-th invocation is on
\* row k-1, and is made when the rows before it hold their results; the
\* call that completes has made N invocations
C20_LoopOrder ==
    /\ [](pc = "loop" =>
            /\ BatchForm(resultObj, numOutputOf(method), numpt)
            /\ numpt = args[1].dims[1]
            /\ idx <= numpt
            /\ Len(fncCalls) = idx
            /\ \A k \in 1..idx :
                  /\ fncCalls[k] = RowOf(args, k - 1)
                  /\ RowValues(resultObj, k - 1) = fnc(method, RowOf(args, k - 1)).result)
    /\ []((Completed /\ IsBatch(args, inputLength(numArgsOf(method))) /\ pyerr = "none") =>
            /\ Len(fncCalls) = args[1].dims[1]
            /\ \A k \in 1..Len(fncCalls) : fncCalls[k] = RowOf(args, k - 1)
            /\ retval = resultObj)
    /\ [][(pc = "loop" /\ pc' = "loop") =>
            /\ ShapeOf(resultObj') = ShapeOf(resultObj)
            /\ idx' = idx + 1
            /\ fncCalls' = Append(fncCalls, RowOf(args, idx))
            /\ \A i \in RowsOf(args) :
                  i # idx => RowValues(resultObj', i) = RowValues(resultObj, i)]_vars
    /\ [][(pc = "idle" /\ pc' = "loop") => fncCalls' = <<>> /\ idx' = 0]_vars

\* a batch of two different points has completed
C20_Witness ==
    /\ Completed
    /\ pyerr = "none"
    /\ IsBatch(args, 3)
    /\ args[1].dims[1] = 2
    /\ RowOf(args, 0) # RowOf(args, 1)
    /\ method = "potential"
    /\ Len(fncCalls) = 2

\* C15: a call leaves the caller's input as it was: the array the function
\* works on is the caller's own only while it holds what the caller passed,
\* and the arguments stay what they were, in the dispatcher, whether it
\* succeeds or fails, and in the evaluation of a spline on an array
C15_InputNotMutated ==
    /\ [](pc # "idle" => ((arr # NULL /\ ~arr.fresh) => arr.obj = args[1]))
    /\ [][pc # "idle" => args' = args]_vars

\* a spline was evaluated on an array, which gave another array
C15_Witness ==
    /\ pc = "returned"
    /\ method = "value"
    /\ selfOk
    /\ Len(args) > 0
    /\ args[1].type = "ndarray"
    /\ retval # NULL
    /\ retval.type = "ndarray"
    /\ retval # args[1]

\* C17: a call that returns the failure indication has set an error
C17_FailureSetsError ==
    (pc = "returned" /\ retval = NULL) => pyerr # "none"

\* the output buffers of an output object
Buffers(obj) == IF obj.type = "tuple" THEN obj.items ELSE <<obj>>

\* the number of doubles in a row of an output buffer
RowWidth(buf) == IF buf.ndim = 1 THEN 1 ELSE buf.dims[2]

\* the positions, counted from 0, of the cells of row i of a buffer
RowCells(buf, i) == (i * RowWidth(buf))..(i * RowWidth(buf) + RowWidth(buf) - 1)

\* C21: the iteration that stores the result of point i writes, in each
\* output buffer, the cells i*w .. i*w+w-1 of row i, which lie inside the
\* buffer allocated for N rows, and leaves the size of the buffer and every
\* cell of every other row as they were
C21_StoreWritesOwnRow ==
    [][(pc = "loop" /\ idx' = idx + 1) =>
          /\ Len(Buffers(resultObj')) = Len(Buffers(resultObj))
          /\ \A b \in 1..Len(Buffers(resultObj)) :
                LET old == Buffers(resultObj)[b]
                    new == Buffers(resultObj')[b]
                IN  /\ new.dims = old.dims
                    /\ Len(new.data) = Len(old.data)
                    /\ Len(old.data) = numpt * RowWidth(old)
                    /\ \A c \in RowCells(old, idx) : c + 1 \in 1..Len(old.data)
                    /\ \A c \in 0..(Len(old.data) - 1) :
                          c \notin RowCells(old, idx) => new.data[c + 1] = old.data[c + 1]
                    /\ RowValues(resultObj', idx) = result']_vars

\* the two rows of a batch of two different points are stored in the two
\* buffers of the force and its derivatives
C21_Witness ==
    /\ pc = "loop"
    /\ method = "force_deriv"
    /\ numpt = 2
    /\ idx = 2
    /\ RowOf(args, 0) # RowOf(args, 1)
    /\ RowValues(resultObj, 0) # RowValues(resultObj, 1)

\* C22: a batch call on a 2-D array of no rows and numArgs columns is not
\* rejected: it returns, with no error set, output in the batch form with
\* no rows, and the function is never invoked
C22_ZeroRows ==
    ((pc \in {"loop", "returned"}) /\ selfOk /\ method \in Methods
        /\ IsBatch(args, inputLength(numArgsOf(method))) /\ args[1].dims[1] = 0) =>
        /\ fncCalls = <<>>
        /\ numpt = 0
        /\ BatchForm(resultObj, numOutputOf(method), 0)
        /\ \A b \in 1..Len(Buffers(resultObj)) : Buffers(resultObj)[b].data = <<>>
        /\ pc = "returned" => (retval = resultObj /\ pyerr = "none")

\* the force and its derivatives were asked for a batch of no rows, and
\* the call has returned
C22_Witness ==
    /\ Completed
    /\ method = "force_deriv"
    /\ IsBatch(args, 3)
    /\ args[1].dims[1] = 0
    /\ retval # NULL

\* C23: a call of the dispatcher that returns after it converted the input
\* to an array has released its reference to that array, once, and when
\* it returns the failure indication no output object is left allocated
C23_ReferencesReleased ==
    (pc = "returned" /\ method \in Methods /\ arr # NULL) =>
        /\ arr.refs = 0
        /\ retval = NULL => resultObj = NULL

-----------------------------------------------------------------------------
(* set_units *)

Py_None == [type |-> "None"]

\* the comparisons and the arithmetic of doubles, one of which may be NAN
IsNaN(x) == x = NAN

Positive(x) == ~IsNaN(x) /\ x > 0

Negative(x) == ~IsNaN(x) /\ x < 0

IsZero(x) == ~IsNaN(x) /\ x = 0

Times(x, y) == IF IsNaN(x) \/ IsNaN(y) THEN NAN ELSE x * y

Over(x, y) == IF IsNaN(x) \/ IsNaN(y) THEN NAN ELSE x \div y

\* units::ExternalUnits(unit, length, velocity, massArg), in units of
\* units::Kpc, units::kms and units::Msun
ExternalUnits(length, velocity, massArg) ==
    [lengthUnit |-> length, massUnit |-> massArg, velocityUnit |-> velocity,
     timeUnit |-> Over(length, velocity)]

\* PyArg_ParseTupleAndKeywords with "|dddd": every argument is optional
ParseUnitsOk(a) == Len(a) <= 4 /\ \A k \in 1..Len(a) : a[k].type = "float"

\* the k-th of mass, length, velocity, time: 0 when it is not given
UnitArg(a, k) == IF k <= Len(a) THEN a[k].val ELSE 0

\* set_units: the unit conversion, the return value and the error it leaves
set_units_result(a) ==
    LET massArg == UnitArg(a, 1)
        length == UnitArg(a, 2)
        velocity == UnitArg(a, 3)
        time == UnitArg(a, 4)
        Fail(msg) == [conv |-> conv, retval |-> NULL, pyerr |-> msg]
        Done(newConv) == [conv |-> newConv, retval |-> Py_None, pyerr |-> "none"]
    IN  IF \/ ~ParseUnitsOk(a)
           \/ Negative(massArg) \/ Negative(length) \/ Negative(velocity) \/ Negative(time)
        THEN Fail("Invalid arguments passed to setUnits()")
        ELSE IF Positive(length) /\ Positive(velocity) /\ Positive(time)
        THEN Fail("You may not assign length, velocity and time units simultaneously")
        ELSE IF IsZero(massArg)
        THEN Fail("You must specify mass unit")
        ELSE IF Positive(length) /\ Positive(time)
        THEN Done(ExternalUnits(length, Over(length, time), massArg))
        ELSE IF Positive(length) /\ Positive(velocity)
        THEN Done(ExternalUnits(length, velocity, massArg))
        ELSE IF Positive(time) /\ Positive(velocity)
        THEN Done(ExternalUnits(Times(velocity, time), velocity, massArg))
        ELSE Fail("You must specify exactly two out of three units: length, time and velocity")

set_units(a) ==
    /\ pc = "idle"
    /\ method' = "set_units"
    /\ args' = a
    /\ conv' = set_units_result(a).conv
    /\ retval' = set_units_result(a).retval
    /\ pyerr' = set_units_result(a).pyerr
    /\ UNCHANGED <<pmaVars, selfOk, pc, arr, numpt, resultObj, idx, result, fncCalls,
                   par, objVars>>

\* sample arguments: the four units, fewer of them, and a string among them
UnitArgs ==
    {<<PyFloat(massArg), PyFloat(length), PyFloat(velocity), PyFloat(time)>> :
        massArg \in {NAN, -1, 0, 3}, length \in {-2, 0, 2},
        velocity \in {NAN, 0, 1, 2}, time \in {-1, 0, 1, 2}}
    \cup {<<>>, <<PyFloat(3), PyFloat(2)>>, <<PyFloat(3), PyFloat(2), PyFloat(1)>>,
          <<PyFloat(3), PyStr, PyFloat(1)>>}

\* the module is initialized: conv = new units::ExternalUnits()
InitUnits ==
    /\ pma = [o \in Objs |-> NoObject]
    /\ heap = [b \in BufIds |-> <<>>]
    /\ hist = [o \in Objs |-> NoHist]
    /\ ret = NoCall
    /\ conv = DefaultUnits
    /\ DispIdle
    /\ ParIdle
    /\ ObjsIdle

NextUnits == \E a \in UnitArgs : set_units(a)

SpecUnits == InitUnits /\ [][NextUnits]_vars

\* the call of set_units that ends in the next state succeeds
UnitsSet == method' = "set_units" /\ retval' = Py_None

\* C19: set_units succeeds, and replaces the unit conversion, only when the
\* mass unit is positive, no value is negative and exactly two of length,
\* velocity and time are positive; in every other case it fails with an
\* error and leaves the unit conversion as it was
C19_SetUnitsValidated ==
    [][method' = "set_units" =>
        LET massArg == UnitArg(args', 1)
            length == UnitArg(args', 2)
            velocity == UnitArg(args', 3)
            time == UnitArg(args', 4)
            valid == /\ ParseUnitsOk(args')
                     /\ Positive(massArg)
                     /\ ~Negative(length) /\ ~Negative(velocity) /\ ~Negative(time)
                     /\ Cardinality({k \in 2..4 : Positive(UnitArg(args', k))}) = 2
        IN  /\ UnitsSet => valid
            /\ ~valid => /\ retval' = NULL
                         /\ pyerr' # "none"
                         /\ conv' = conv]_vars

-----------------------------------------------------------------------------
(* The loop of callAnyFunctionOnArray with its steps taken in any order *)

\* the call of a method on a batch, up to the start of the loop
ParStart(m, a) ==
    /\ pc = "idle"
    /\ selfOk
    /\ ~parseTuple(numArgsOf(m), a)
    /\ Len(a) = 1
    /\ PyArray_FROM_OTF(a[1]) # NULL
    /\ LET array == PyArray_FROM_OTF(a[1])
       IN  /\ PyArray_NDIM(array.obj) = 2
           /\ PyArray_DIM(array.obj, 1) = numArgsOf(m)
           /\ method' = m
           /\ args' = a
           /\ arr' = array
           /\ numpt' = PyArray_DIM(array.obj, 0)
           /\ \E junk \in JunkValues :
                 resultObj' = allocOutputArr(numOutputOf(m), PyArray_DIM(array.obj, 0), junk)
           /\ par' = [status |-> [i \in 1..PyArray_DIM(array.obj, 0) |-> "todo"],
                      overlapped |-> FALSE]
    /\ pc' = "par"
    /\ UNCHANGED <<selfOk, idx, result, fncCalls, retval, pyerr, pmaVars, conv, objVars>>

\* an invocation whose result adds to what the scratch buffer holds
ParInvoke_accumulate(i) ==
    /\ pc = "par"
    /\ i < numpt
    /\ par.status[i + 1] = "todo"
    /\ LET input == PointAt2(arr.obj, i, numArgsOf(method))
           r == fnc(method, input)
       IN  /\ fncCalls' = Append(fncCalls, input)
           /\ IF r.threw
              THEN /\ Return(NULL, ExceptionOccured)
                   /\ UNCHANGED <<result, par>>
              ELSE /\ result' = [d \in 1..Len(r.result) |->
                                    r.result[d] + (IF d <= Len(result) THEN result[d] ELSE 0)]
                   /\ par' = [status |-> [par.status EXCEPT ![i + 1] = "called"],
                              overlapped |-> par.overlapped
                                  \/ \E j \in 1..numpt : par.status[j] = "called"]
                   /\ UNCHANGED <<pc, retval, pyerr>>
    /\ UNCHANGED <<method, args, selfOk, arr, numpt, resultObj, idx, pmaVars, conv, objVars>>

\* the first statement of the loop body, for row i: fnc(self, row i, result)
ParInvoke(i) ==
    /\ pc = "par"
    /\ i < numpt
    /\ par.status[i + 1] = "todo"
    /\ LET input == PointAt2(arr.obj, i, numArgsOf(method))
           r == fnc(method, input)
       IN  /\ fncCalls' = Append(fncCalls, input)
           /\ IF r.threw
              THEN /\ Return(NULL, ExceptionOccured)
                   /\ UNCHANGED <<result, par>>
              ELSE /\ result' = r.result
                   /\ par' = [status |-> [par.status EXCEPT ![i + 1] = "called"],
                              overlapped |-> par.overlapped
                                  \/ \E j \in 1..numpt : par.status[j] = "called"]
                   /\ UNCHANGED <<pc, retval, pyerr>>
    /\ UNCHANGED <<method, args, selfOk, arr, numpt, resultObj, idx, pmaVars, conv, objVars>>

\* the second statement of the loop body, for row i:
\* formatOutputArr(result, i, resultObj)
ParStore(i) ==
    /\ pc = "par"
    /\ i < numpt
    /\ par.status[i + 1] = "called"
    /\ resultObj' = formatOutputArr(numOutputOf(method), result, i, resultObj)
    /\ par' = [par EXCEPT !.status[i + 1] = "stored"]
    /\ UNCHANGED <<method, args, selfOk, pc, arr, numpt, idx, result, fncCalls, retval,
                   pyerr, pmaVars, conv, objVars>>

\* every row is done: the output object is returned
ParEnd ==
    /\ pc = "par"
    /\ \A j \in 1..numpt : par.status[j] = "stored"
    /\ arr' = Py_DECREF(arr)
    /\ Return(resultObj, "none")
    /\ UNCHANGED <<method, args, selfOk, numpt, resultObj, idx, result, fncCalls, par,
                   pmaVars, conv, objVars>>

\* sample batches
ParArgs(numArgs) ==
    {<<Array2(rows, inputLength(numArgs))>> :
        rows \in SeqsUpTo(SamplePoints(numArgs), MaxRows)}

InitPar ==
    /\ InitDisp
    /\ selfOk

NextPar ==
    \/ \E m \in Methods : \E a \in ParArgs(numArgsOf(m)) : ParStart(m, a)
    \/ \E i \in 0..(MaxRows - 1) : ParInvoke(i)
    \/ \E i \in 0..(MaxRows - 1) : ParStore(i)
    \/ ParEnd

SpecPar == InitPar /\ [][NextPar]_vars

\* the loop of callAnyFunctionOnArray on rows i, i+1, ...
RECURSIVE SequentialLoop(_, _, _, _)
SequentialLoop(m, a, i, obj) ==
    IF i < a[1].dims[1]
    THEN SequentialLoop(m, a, i + 1,
                        formatOutputArr(numOutputOf(m), fnc(m, RowOf(a, i)).result, i, obj))
    ELSE obj

\* the output object holds what the loop in the order of the rows leaves
SameAsSequential ==
    \E junk \in JunkValues :
        resultObj = SequentialLoop(method, args, 0,
                        allocOutputArr(numOutputOf(method), numpt, junk))

\* every row of the batch has been invoked and stored
AllStored ==
    /\ pc \in {"par", "returned"}
    /\ pyerr = "none"
    /\ \A j \in 1..numpt : par.status[j] = "stored"

\* C14 as claimed: the rows share no mutable state, so the statements of
\* the loop body, taken for the rows in any order and interleaved in any
\* way, leave the output of the loop in the order of the rows
C14_AnyInterleaving == AllStored => SameAsSequential

\* C14 as amended: the loop bodies, each taken whole, leave in any order
\* of the rows the output of the loop in the order of the rows
C14_AnyOrder == (AllStored /\ ~par.overlapped) => SameAsSequential

\* two different rows were done, the second before the first
C14_Witness ==
    /\ AllStored
    /\ ~par.overlapped
    /\ pc = "returned"
    /\ numpt = 2
    /\ RowOf(args, 0) # RowOf(args, 1)
    /\ fncCalls = <<RowOf(args, 1), RowOf(args, 0)>>

-----------------------------------------------------------------------------
(* Potential objects and the models they own *)

\* Potential_isCorrect, of an object that exists
Potential_isCorrect(o) == potentials[o].pot # NULLPTR

\* delete of a model: potential::CompositeCyl deletes its components in its
\* destructor; a second delete of a model is counted
RECURSIVE Delete(_, _)
RECURSIVE DeleteAll(_, _, _)
Delete(ms, m) ==
    IF m = NULLPTR THEN ms
    ELSE LET deleted == [ms EXCEPT ![m].state = "deleted", ![m].deletes = @ + 1]
         IN  IF ms[m].state = "live" THEN DeleteAll(deleted, ms[m].components, 1)
             ELSE deleted

DeleteAll(ms, components, k) ==
    IF k > Len(components) THEN ms
    ELSE DeleteAll(Delete(ms, components[k]), components, k + 1)

\* the models that are not created yet
Unused(ms) == {m \in ModelIds : ms[m].state = "unused"}

\* the address that new gives the next model
NewModel(ms) == CHOOSE m \in Unused(ms) : \A n \in Unused(ms) : m <= n

\* new potential::CompositeCyl(components), and what createPotential returns
\* (no components)
Created(ms, components) ==
    [ms EXCEPT ![NewModel(ms)] = [state |-> "live", components |-> components, deletes |-> 0]]

\* Potential_initMemberVar(self, pot) on objects ps and models ms
Potential_initMemberVar(ps, ms, self, pot) ==
    [potentials |-> [ps EXCEPT ![self].pot = pot],
     models |-> IF ps[self].pot # NULLPTR THEN Delete(ms, ps[self].pot) ELSE ms]

\* an argument that is not a Potential object
NotAPotential == "float"

\* PyObject_TypeCheck(PyTuple_GET_ITEM(args, i), PotentialTypePtr) for every i
AllPotentials(a) == \A k \in 1..Len(a) : a[k] \in PotObjs

\* the loop of Potential_initComposite that takes the models of the
\* arguments: the vector components
TakenComponents(ps, a) ==
    [k \in 1..Len(a) |-> IF \E j \in 1..(k - 1) : a[j] = a[k] THEN NULLPTR
                         ELSE ps[a[k]].pot]

\* the objects after that loop
Stripped(ps, a) ==
    [o \in PotObjs |-> IF \E k \in 1..Len(a) : a[k] = o
                       THEN [ps[o] EXCEPT !.pot = NULLPTR] ELSE ps[o]]

\* Potential_new
Potential_new(o) ==
    /\ ~potentials[o].exists
    /\ potentials' = [potentials EXCEPT ![o] = [exists |-> TRUE, pot |-> NULLPTR]]
    /\ ret' = [op |-> "Potential_new", obj |-> o]
    /\ UNCHANGED <<models, finders, spl, pma, heap, hist, conv, dispVars, par>>

\* Potential_init(self, args, namedArgs) with the positional arguments a;
\* throws tells whether the constructor of the model raises
Potential_init(self, a, throws) ==
    /\ potentials[self].exists
    /\ \A k \in 1..Len(a) : a[k] \in PotObjs => potentials[a[k]].exists
    /\ IF Len(a) > 0 /\ ~AllPotentials(a)
       THEN \* not a tuple of Potential objects, and no file name or type either
            /\ ret' = [op |-> "Potential_init", obj |-> self, args |-> a, outcome |-> "error"]
            /\ UNCHANGED objVars
       ELSE IF Len(a) > 0
       THEN \* Potential_initComposite
            IF throws
            THEN /\ potentials' = Stripped(potentials, a)
                 /\ ret' = [op |-> "Potential_init", obj |-> self, args |-> a,
                            outcome |-> "error"]
                 /\ UNCHANGED models
            ELSE /\ Unused(models) # {}
                 /\ LET created == Created(models, TakenComponents(potentials, a))
                        done == Potential_initMemberVar(Stripped(potentials, a), created,
                                                        self, NewModel(models))
                    IN  /\ potentials' = done.potentials
                        /\ models' = done.models
                 /\ ret' = [op |-> "Potential_init", obj |-> self, args |-> a,
                            outcome |-> "ok"]
       ELSE \* potential::createPotential(cfg)
            IF throws
            THEN /\ ret' = [op |-> "Potential_init", obj |-> self, args |-> a,
                            outcome |-> "error"]
                 /\ UNCHANGED objVars
            ELSE /\ Unused(models) # {}
                 /\ LET done == Potential_initMemberVar(potentials, Created(models, <<>>),
                                                        self, NewModel(models))
                    IN  /\ potentials' = done.potentials
                        /\ models' = done.models
                 /\ ret' = [op |-> "Potential_init", obj |-> self, args |-> a,
                            outcome |-> "ok"]
    /\ UNCHANGED <<finders, spl, pma, heap, hist, conv, dispVars, par>>

\* Potential_dealloc: called when no reference to the object is left
Potential_dealloc(self) ==
    /\ potentials[self].exists
    /\ \A f \in FinderObjs : finders[f].pot # self
    /\ models' = Delete(models, potentials[self].pot)
    /\ potentials' = [potentials EXCEPT ![self] = [exists |-> FALSE, pot |-> NULLPTR]]
    /\ ret' = [op |-> "Potential_dealloc", obj |-> self]
    /\ UNCHANGED <<finders, spl, pma, heap, hist, conv, dispVars, par>>

\* sample arguments of the constructor of the object "c": tuples of one
\* and of two objects, of an object twice, with the object itself, and
\* with an argument that is no Potential
CompositeArgs ==
    {<<"p">>, <<"p", "q">>, <<"p", "p">>, <<"c">>, <<"c", "q">>,
     <<NotAPotential>>, <<"p", NotAPotential>>}

InitPot == InitUnits

NextPot ==
    \/ \E o \in PotObjs : Potential_new(o)
    \/ \E o \in PotObjs : \E throws \in BOOLEAN : Potential_init(o, <<>>, throws)
    \/ \E a \in CompositeArgs : \E throws \in BOOLEAN : Potential_init("c", a, throws)
    \/ \E o \in PotObjs : Potential_dealloc(o)

SpecPot == InitPot /\ [][NextPot]_vars

\* the number of holders of model m: the objects whose pot it is, and the
\* places it has among the components of the composite models
Holders(m) ==
    Cardinality({o \in PotObjs : potentials[o].pot = m})
    + Cardinality({h \in ModelIds \X (1..2) :
                      /\ models[h[1]].state = "live"
                      /\ h[2] <= Len(models[h[1]].components)
                      /\ models[h[1]].components[h[2]] = m})

\* C18: after a composite has been constructed every object of the tuple
\* holds no model, and its methods fail; every model that exists is held by
\* exactly one owner, and no model is destroyed more than once
C18_CompositeOwnership ==
    /\ (ret.op = "Potential_init" /\ ret.outcome = "ok")
          => \A k \in 1..Len(ret.args) : ~Potential_isCorrect(ret.args[k])
    /\ \A m \in ModelIds :
          /\ models[m].state = "live" => Holders(m) = 1
          /\ models[m].deletes <= 1

\* C25: a construction of a composite from a tuple that fails reports an
\* error and leaves every Potential object of the tuple with the model it
\* held before the call, which still exists
C25_FailedCompositeKeepsComponents ==
    [][(ret'.op = "Potential_init" /\ Len(ret'.args) > 0 /\ ret'.outcome = "error") =>
          \A k \in 1..Len(ret'.args) :
             ret'.args[k] \in PotObjs =>
                /\ potentials'[ret'.args[k]] = potentials[ret'.args[k]]
                /\ potentials[ret'.args[k]].pot # NULLPTR =>
                      models'[potentials[ret'.args[k]].pot].state = "live"]_vars

\* C26: every component a composite model was constructed from is a model,
\* not the null pointer, and a construction of a composite that succeeded
\* was given no Potential object twice and none without a model
C26_ComponentsAreModels ==
    /\ \A m \in ModelIds :
          models[m].state # "unused" =>
             \A k \in 1..Len(models[m].components) : models[m].components[k] # NULLPTR
    /\ (ret.op = "Potential_init" /\ ret.outcome = "ok") =>
          \A j, k \in 1..Len(ret.args) : j # k => ret.args[j] # ret.args[k]

-----------------------------------------------------------------------------
(* ActionFinder objects *)

\* ActionFinder_new
ActionFinder_new(f) ==
    /\ ~finders[f].exists
    /\ finders' = [finders EXCEPT ![f] =
                      [exists |-> TRUE, finder |-> NULLPTR, pot |-> NoPyObject]]
    /\ ret' = [op |-> "ActionFinder_new", obj |-> f]
    /\ UNCHANGED <<potentials, models, spl, pma, heap, hist, conv, dispVars, par>>

\* new actions::ActionFinderAxisymFudge(pot): the finder refers to the
\* model it is given
ActionFinderAxisymFudge(pot) == pot

\* ActionFinder_init(self, args, namedargs) with the positional arguments a;
\* throws tells whether the constructor of the finder raises
ActionFinder_init(self, a, throws) ==
    /\ finders[self].exists
    /\ \A k \in 1..Len(a) : a[k] \in PotObjs => potentials[a[k]].exists
    /\ IF Len(a) # 1
       THEN /\ ret' = [op |-> "ActionFinder_init", obj |-> self, args |-> a,
                       outcome |-> "error"]
            /\ UNCHANGED finders
       ELSE IF a[1] \notin PotObjs \/ potentials[a[1]].pot = NULLPTR
       THEN /\ ret' = [op |-> "ActionFinder_init", obj |-> self, args |-> a,
                       outcome |-> "error"]
            /\ UNCHANGED finders
       ELSE IF throws
       THEN /\ ret' = [op |-> "ActionFinder_init", obj |-> self, args |-> a,
                       outcome |-> "error"]
            /\ UNCHANGED finders
       ELSE /\ finders' = [finders EXCEPT
                             ![self].finder = ActionFinderAxisymFudge(potentials[a[1]].pot),
                             ![self].pot = a[1]]
            /\ ret' = [op |-> "ActionFinder_init", obj |-> self, args |-> a,
                       outcome |-> "ok"]
    /\ UNCHANGED <<potentials, models, spl, pma, heap, hist, conv, dispVars, par>>

\* ActionFinder_dealloc
ActionFinder_dealloc(self) ==
    /\ finders[self].exists
    /\ finders' = [finders EXCEPT ![self] =
                      [exists |-> FALSE, finder |-> NULLPTR, pot |-> NoPyObject]]
    /\ ret' = [op |-> "ActionFinder_dealloc", obj |-> self]
    /\ UNCHANGED <<potentials, models, spl, pma, heap, hist, conv, dispVars, par>>

\* sample arguments of the constructor of an ActionFinder: a Potential
\* object, no argument, two arguments, an argument that is no Potential
FinderArgs ==
    {<<o>> : o \in PotObjs} \cup {<<>>, <<"p", "q">>, <<NotAPotential>>}

NextFinder ==
    \/ NextPot
    \/ \E f \in FinderObjs : ActionFinder_new(f)
    \/ \E f \in FinderObjs : \E a \in FinderArgs : \E throws \in BOOLEAN :
          ActionFinder_init(f, a, throws)
    \/ \E f \in FinderObjs : ActionFinder_dealloc(f)

\* Potential and ActionFinder objects
SpecFinder == InitPot /\ [][NextFinder]_vars

\* C24: while an ActionFinder object exists, the model its finder was
\* built from has not been destroyed
C24_FinderModelAlive ==
    \A f \in FinderObjs :
        (finders[f].exists /\ finders[f].finder # NULLPTR) =>
            models[finders[f].finder].state = "live"

-----------------------------------------------------------------------------
(* SplineApprox_init *)

\* the largest number of knots of a sample array of knots
MaxKnots == 5

\* PyArg_ParseTupleAndKeywords(args, namedargs, "OOO|d", ...)
parseInitArgs(a) ==
    \/ Len(a) = 3
    \/ Len(a) = 4 /\ a[4].type = "float"

\* math::SplineApprox(xvalues, knots) with fitData or fitDataOversmooth,
\* and the math::CubicSpline made of the result
CubicSpline(xvalues, yvalues, knots, smoothfactor) ==
    [knots |-> knots, xvalues |-> xvalues, yvalues |-> yvalues,
     smoothfactor |-> smoothfactor]

\* the first n doubles at PyArray_DATA(a)
PyArray_DATA(a, n) == [k \in 1..n |-> a.data[k]]

\* SplineApprox_init(self, args, namedargs) with the positional arguments a;
\* throws tells whether the fit of the spline raises
SplineApprox_init(a, throws) ==
    /\ IF ~parseInitArgs(a)
       THEN /\ ret' = [op |-> "SplineApprox_init", args |-> a,
                       outcome |-> "Incorrect parameters passed to the SplineApprox constructor"]
            /\ UNCHANGED spl
       ELSE LET arrx == PyArray_FROM_OTF(a[1])
                arry == PyArray_FROM_OTF(a[2])
                arrk == PyArray_FROM_OTF(a[3])
                smoothfactor == IF Len(a) = 4 THEN a[4].val ELSE 0
            IN
            IF arrx = NULL \/ arry = NULL \/ arrk = NULL
            THEN /\ ret' = [op |-> "SplineApprox_init", args |-> a,
                            outcome |-> "Input does not contain valid arrays"]
                 /\ UNCHANGED spl
            ELSE LET numpt_ == IF PyArray_NDIM(arrx.obj) = 1
                               THEN PyArray_DIM(arrx.obj, 0) ELSE 0
                     numknots == IF PyArray_NDIM(arrk.obj) = 1
                                 THEN PyArray_DIM(arrk.obj, 0) ELSE 0
                 IN
                 IF \/ numpt_ <= 0
                    \/ numknots <= 4
                    \/ PyArray_NDIM(arry.obj) # 1
                    \/ PyArray_DIM(arry.obj, 0) # numpt_
                 THEN /\ ret' = [op |-> "SplineApprox_init", args |-> a,
                                 outcome |-> "Arguments must be two arrays of equal length (x and y) and a third array (knots, at least 4)"]
                      /\ UNCHANGED spl
                 ELSE IF throws
                 THEN /\ ret' = [op |-> "SplineApprox_init", args |-> a,
                                 outcome |-> "Error in SplineApprox initialization"]
                      /\ UNCHANGED spl
                 ELSE /\ spl' = CubicSpline(PyArray_DATA(arrx.obj, numpt_),
                                            PyArray_DATA(arry.obj, numpt_),
                                            PyArray_DATA(arrk.obj, numknots),
                                            smoothfactor)
                      /\ ret' = [op |-> "SplineApprox_init", args |-> a, outcome |-> "ok"]
    /\ UNCHANGED <<potentials, models, finders, pma, heap, hist, conv, dispVars, par>>

\* sample arguments x and y: arrays and lists of two and three numbers, an
\* array of none, a number, a string, a 2-D array
PointArgs ==
    {Array1(<<1, 2>>), Array1(<<2, 4, 8>>), Array1(<<>>), PyList(<<1, 2>>),
     PyFloat(1), PyStr, Array2(<<<<1, 2>>, <<4, 8>>>>, 2)}

\* sample arguments knots: 1-D arrays of 3 to MaxKnots knots, a 2-D array of
\* six numbers, a string
KnotArgs ==
    {Array1([i \in 1..n |-> i]) : n \in 3..MaxKnots}
    \cup {Array2(<<<<1, 2, 3>>, <<4, 5, 6>>>>, 3), PyStr}

\* sample argument tuples: x, y and knots, with and without the smoothing
\* factor; a smoothing factor that is no number; x and y alone
SplineArgs ==
    {<<x, y, k>> : x \in PointArgs, y \in PointArgs, k \in KnotArgs}
    \cup {<<x, y, k, PyFloat(1)>> : x \in PointArgs, y \in PointArgs, k \in KnotArgs}
    \cup {<<Array1(<<1, 2>>), Array1(<<1, 2>>), Array1(<<1, 2, 3, 4, 5>>), PyStr>>,
          <<Array1(<<1, 2>>), Array1(<<1, 2>>)>>}

NextSpline == \E a \in SplineArgs : \E throws \in BOOLEAN : SplineApprox_init(a, throws)

\* the constructor of a SplineApprox object, called any number of times
SpecSpline == InitPot /\ [][NextSpline]_vars

\* the object is a 1-D array, or a list, of numbers
Is1D(obj) == (obj.type = "ndarray" /\ obj.ndim = 1) \/ obj.type = "list"

\* the number of elements of a 1-D array or list
Len1D(obj) == IF obj.type = "list" THEN Len(obj.items) ELSE obj.dims[1]

\* x and y are 1-D arrays of equal positive length, knots is a 1-D array of
\* at least atLeast values
ValidSplineArgs(a, atLeast) ==
    /\ Len(a) >= 3
    /\ Is1D(a[1]) /\ Is1D(a[2]) /\ Is1D(a[3])
    /\ Len1D(a[1]) > 0
    /\ Len1D(a[2]) = Len1D(a[1])
    /\ Len1D(a[3]) >= atLeast

\* the call got past the validation of its arguments
PassedValidation(outcome) ==
    outcome \in {"ok", "Error in SplineApprox initialization"}

\* C27: the construction of a SplineApprox passes the validation of its
\* arguments exactly when x and y are 1-D arrays of equal positive length
\* and knots is a 1-D array of at least 4 values; for other arguments it
\* fails with an error and the spline the object held is unchanged
C27_SplineValidation ==
    [][ret'.op = "SplineApprox_init" =>
          /\ parseInitArgs(ret'.args) =>
                (PassedValidation(ret'.outcome) <=> ValidSplineArgs(ret'.args, 4))
          /\ ~ValidSplineArgs(ret'.args, 4) => (ret'.outcome # "ok" /\ spl' = spl)]_vars

====
